---- MODULE Spec2Model ----
(***************************************************************************)
(* A model of SEx, the sample explorer: the waveform loader and the        *)
(* Waveform widget that consumes its events (src/src/waveform.rs), the     *)
(* FFT processor (src/src/fft_processor.rs), and the audio engine with     *)
(* its sample tap, the visualization fan-out and the analyzers             *)
(* (src/src/audio.rs, visualization.rs, vu_meter.rs, vectorscope.rs,       *)
(* scope.rs, spectrum.rs, tuner.rs).                                       *)
(*                                                                         *)
(* An Option<T> of the program is a set with at most one element: None is  *)
(* {} and Some(x) is {x}.                                                  *)
(***************************************************************************)
EXTENDS Integers, Sequences, FiniteSets, TLC

VARIABLES
    \* ---- Waveform widget (struct Waveform) ----
    samples,             \* Waveform::samples, the displayed envelope
    total_samples,       \* Waveform::total_samples : Option<usize>
    current_generation,  \* Waveform::current_generation
    command_sender,      \* Waveform::command_sender is Some
    \* ---- channels of waveform_loading ----
    command_queue,       \* mpsc::channel::<WaveformCommand>(8), in flight
    output,              \* iced::stream::channel(8, ..), in flight
    \* ---- waveform_loading task ----
    pc,                  \* position of the loader task
    command,             \* the command process_command is handling
    decoder,             \* State::Decoding { decoder, sample_rate, generation }
    buffer,              \* local `buffer` of the decoding loop
    channel,             \* local `channel`
    accumulator,         \* local `accumulator`
    \* ---- history of the loader, for the properties ----
    log,                 \* events emitted since the last command taken in Idle
    load,                \* the command taken in Idle that `log` belongs to
    cancelled,           \* the cancellation poll took a StopLoading in this decode
    dropped,             \* the cancellation poll took a LoadFile in this decode
    last,                \* what the last Waveform::update, show or clear did
    sent,                \* commands sent straight to the loader (LoaderSpec)
    blank,               \* clear() was called and show() was not since
    drawn,               \* for each value of the envelope, the generation of
                         \* the SamplesReady that brought it
    late,                \* the chunks of the running decode sent since a
                         \* StopLoading was in the queue, if one was
    \* ---- FftProcessor<FFT_SIZE> ----
    temporary,           \* FftProcessor::temporary, the carry buffer
    fft_result,          \* what the last process() returned : Option<transform>
    \* ---- history of the processor, for the properties ----
    fft_op,              \* the last call: "new", "process" or "reset"
    fft_total,           \* samples fed since construction
    fft_fed,             \* samples fed since the last reset (or construction)
    fft_results,         \* results returned since the last reset (or construction)
    fft_reset,           \* None, or Some(length of the carry the last reset cleared)
    \* ---- struct Audio ----
    output_stream,       \* Audio::output_stream is Some
    audio_sender,        \* Audio::command_sender is Some
    \* ---- channels of run_audio_player ----
    audio_commands,      \* mpsc::channel::<AudioCommand>(8), in flight
    events,              \* iced::stream::channel(64, ..), in flight
    parked,              \* senders of `events` that wait for room
    \* ---- run_audio_player task ----
    epc,                 \* position of the engine task
    mixer,               \* `mixer` is Some
    sink,                \* `sink` : Option<Sink>
    current_file_duration,
    current_file_path,
    \* ---- rodio's playback thread ----
    sink_pos,            \* what sink.get_pos() returns, in frames
    sources,             \* the SourcePickers it still pulls samples from
    \* ---- analyzers ----
    levels_per_channel,  \* VuMeter::levels_per_channel
    points,              \* Vectorscope::points
    scope_buffer,        \* Scope::buffer
    spectrum,            \* Spectrum: temporary, sample_rate, display_buffer
    tuner,               \* Tuner: display, sample_rate, processor.temporary
    play_position,       \* Waveform::play_position
    \* ---- history of the audio engine, for the properties ----
    audio_ops,           \* play() and stop() calls made
    session,             \* SourcePickers created so far; the last one's number
    history,             \* counts of Stop commands, ends of stream, empty blocks;
                         \* halted: a Stop was handled and no Play succeeded since;
                         \* last: the last command the engine handled
    silenced,            \* Some(session) once that session's empty block was dispatched
    \* ---- SEx::update, Message::SelectFile ----
    pending,             \* SelectFile(None) messages queued by Task::done
    selection,           \* the last SelectFile handled and the calls it made
    tasks,               \* messages of Task::done the runtime has yet to deliver
    \* ---- a caller of Visualization's functions ----
    vis,                 \* the last call: function, arguments, value returned
    \* ---- a caller of the tuner's pitch functions ----
    pitch,               \* the last call: function, argument, value returned
    \* ---- FileExplorer and the directory it shows ----
    fs,                  \* the paths that exist under the root directory
    explorer,            \* FileExplorerModel: index (nodes), linear_index, next_node_id
    loading,             \* load_directory_entries tasks whose result is to come
    explorer_last,       \* the last message FileExplorer::update handled, the
                         \* listing before it and the subtree it named
    \* ---- the process ----
    panicked             \* an unwrap(), expect() or index check failed

wvars == <<samples, total_samples, current_generation, command_sender,
           command_queue, output, pc, command, decoder, buffer, channel,
           accumulator, log, load, cancelled, dropped, last, sent, blank, late,
           drawn>>

fvars == <<temporary, fft_result, fft_op, fft_total, fft_fed, fft_results, fft_reset>>

avars == <<output_stream, audio_sender, audio_commands, events, parked, epc,
           mixer, sink, current_file_duration, current_file_path, sources,
           levels_per_channel, points, scope_buffer, spectrum, tuner,
           audio_ops, session, history, silenced, sink_pos, play_position>>

svars == <<pending, selection, tasks>>

evars == <<fs, explorer, loading, explorer_last>>

vars == <<wvars, fvars, avars, svars, evars, vis, pitch, panicked>>

\* what a step of the waveform widget or loader leaves alone
not_waveform == <<fvars, avars, svars, evars, vis, pitch>>
\* what a call of the FftProcessor leaves alone
not_fft == <<wvars, avars, svars, evars, vis, pitch, panicked>>
\* what a step of the audio engine, its playback thread or its consumers leaves alone
not_audio == <<wvars, fvars, svars, evars, vis, pitch>>
\* what a call of a function of Visualization leaves alone
not_vis == <<wvars, fvars, avars, svars, evars, pitch, panicked>>
\* what a call of a pitch function of the tuner leaves alone
not_pitch == <<wvars, fvars, avars, svars, evars, vis, panicked>>
\* what a message of the file explorer leaves alone
not_explorer == <<wvars, fvars, avars, svars, vis, pitch>>

None == {}
Some(x) == {x}

----------------------------------------------------------------------------
(* Bounds of the model *)

\* number of show()/clear() calls of a run
MaxGen == 3
\* commands a client other than the widget sends straight to the loader
MaxCommands == 3
\* decoded samples of the long mono file: one full chunk and a partial one
MonoLen == 18
\* decoded samples of the stereo file: a full chunk, a frame and a dangling sample
StereoLen == 35
\* FFT_SIZE of the FftProcessor instance of the model
FftSize == 3
\* longest slice handed to one process() call
MaxSlice == 7
\* samples handed to the processor in a run
MaxFed == 10
\* play() and stop() calls of a run
MaxAudioOps == 3
\* decoded samples of the mono track: two blocks and a sample
MonoTrackLen == 3
\* decoded samples of the stereo track: two blocks
StereoTrackLen == 2
SpectrumFftSize == 4
TunerFftSize == 4
MaxChannels == 3
MaxBlock == 4
FractionBits == 14
\* show() and clear() calls of a run of fast selections
MaxShows == 5
\* decoded samples of the long track: as many blocks as the event channel buffers
LongTrackLen == 64
\* samples of the track whose rate is below one block per sixtieth of a second
SlowTrackLen == 3
\* samples of the stereo track of 90 frames per second
OddTrackLen == 4
\* show() and clear() calls of a run of the fair loader
MaxLoads == 2
\* selections of a sound file in a run of the track changes
MaxSelections == 2
MaxMidi == 127

----------------------------------------------------------------------------
(* The files a path may name, as rodio's Decoder sees them *)

Files == 1 .. 4

\* two mono files of two frames at three frames per second, whose length is no
\* whole number of nanoseconds: the decoder of the first reports the duration
\* rounded down, that of the second rounded up
RoundedDownFile == 5
RoundedUpFile == 6
OddRateFiles == {RoundedDownFile, RoundedUpFile}

\* File::open(&path) is Ok
Openable(f) == f \in {1, 2, 4} \cup OddRateFiles

\* Decoder::new(BufReader::new(file)) is Ok
DecoderBuilds(f) == f \in {1, 2} \cup OddRateFiles

Decodable(f) == Openable(f) /\ DecoderBuilds(f)

\* Decoder::channels
Channels(f) == IF f = 2 THEN 2 ELSE 1

\* Decoder::sample_rate
SampleRateOf(f) == IF f \in OddRateFiles THEN 3 ELSE 1

\* length of the sample sequence Decoder::next yields
DecodedLen(f) == CASE f = 1 -> MonoLen
                   [] f = 2 -> StereoLen
                   [] f \in OddRateFiles -> 2
                   [] OTHER -> 0

\* the i-th sample (1-based) Decoder::next yields: all different within a file
SampleAt(f, i) == 10 * f + i

NanosPerSecond == 1000000000

\* Decoder::total_duration().as_nanos() of a file whose length is no whole
\* number of nanoseconds
TotalDurationNanos(f) ==
    LET frames == DecodedLen(f) \div Channels(f)
        down == (frames * NanosPerSecond) \div SampleRateOf(f)
    IN IF f = RoundedDownFile THEN down ELSE down + 1

\* process_command: (duration.as_nanos() * sample_rate / 1_000_000_000) as usize
samples_count(nanos, sample_rate) == (nanos * sample_rate) \div NanosPerSecond

\* process_command: samples_count, when the format tells the duration.  The
\* mono file's length is a whole number of seconds
SamplesCount(f) ==
    CASE f = 1 -> Some(DecodedLen(f) \div Channels(f))
      [] f \in OddRateFiles -> Some(samples_count(TotalDurationNanos(f), SampleRateOf(f)))
      [] OTHER -> None

----------------------------------------------------------------------------
(* Messages *)

LoadFile(path, generation) ==
    [type |-> "LoadFile", path |-> path, generation |-> generation]
StopLoading == [type |-> "StopLoading", path |-> 0, generation |-> 0]

Initialized == [type |-> "Initialized", samples |-> <<>>, generation |-> 0, count |-> None]
LoadingStarted(count) ==
    [type |-> "LoadingStarted", samples |-> <<>>, generation |-> 0, count |-> count]
LoadingFinished ==
    [type |-> "LoadingFinished", samples |-> <<>>, generation |-> 0, count |-> None]
ClearMsg == [type |-> "Clear", samples |-> <<>>, generation |-> 0, count |-> None]
SamplesReady(chunk, generation) ==
    [type |-> "SamplesReady", samples |-> chunk, generation |-> generation, count |-> None]

NoCommand == [type |-> "None", path |-> 0, generation |-> 0]
NoDecoder == [file |-> 0, pos |-> 0, sample_rate |-> 0, generation |-> 0]

\* mpsc::channel(8): the buffer
CommandChannelBuffer == 8
\* iced::stream::channel(8, ..): the buffer
OutputChannelBuffer == 8
\* futures' mpsc holds buffer + number of senders messages; each channel has one
ChannelCapacity(size) == size + 1

\* buffer_size = sample_rate * 16
ChunkSeconds == 16
BufferSize(sample_rate) == sample_rate * ChunkSeconds

----------------------------------------------------------------------------
(* Waveform widget *)

\* Sender::try_send is Ok
TrySendOk(queue, size) == Len(queue) < ChannelCapacity(size)

\* the loader is inside State::Decoding
InDecode == pc \in {"Decoding", "SendChunk", "Flush"}

\* a StopLoading is among the commands of queue
HoldsStop(queue) == \E i \in DOMAIN queue : queue[i].type = "StopLoading"

\* `late` after the widget or a client left the command channel as queue
LateAfterSend(queue) ==
    IF InDecode /\ late = None /\ HoldsStop(queue) THEN Some(0) ELSE late

\* `late` after the loader sent a chunk
LateAfterChunk == {n + 1 : n \in late}

\* Waveform::show: the widget's fields, the command channel and the outcome
\* after the call
show(path) ==
    IF ~command_sender
      THEN [current_generation |-> current_generation,
            command_queue |-> command_queue, panicked |-> FALSE,
            last |-> "ShowNoSender"]
    ELSE IF ~TrySendOk(command_queue, CommandChannelBuffer)
      THEN [current_generation |-> current_generation,
            command_queue |-> command_queue, panicked |-> TRUE,
            last |-> "ShowPanic"]
    ELSE IF ~TrySendOk(Append(command_queue, StopLoading), CommandChannelBuffer)
      THEN [current_generation |-> current_generation + 1,
            command_queue |-> Append(command_queue, StopLoading),
            panicked |-> TRUE, last |-> "ShowPanic"]
    ELSE [current_generation |-> current_generation + 1,
          command_queue |-> command_queue \o
              <<StopLoading, LoadFile(path, current_generation + 1)>>,
          panicked |-> FALSE, last |-> "Show"]

\* Waveform::show
Show(path) ==
    /\ ~panicked
    /\ UNCHANGED not_waveform
    /\ LET after == show(path) IN
       /\ current_generation' = after.current_generation
       /\ command_queue' = after.command_queue
       /\ panicked' = after.panicked
       /\ last' = after.last
    /\ blank' = FALSE
    /\ late' = LateAfterSend(show(path).command_queue)
    /\ UNCHANGED drawn
    /\ UNCHANGED <<samples, total_samples, command_sender, output, pc, command,
                   decoder, buffer, channel, accumulator, log, load, cancelled, dropped, sent>>

\* Waveform::clear: the widget's fields, the command channel and the outcome
\* after the call
clear ==
    IF ~command_sender
      THEN [current_generation |-> current_generation,
            command_queue |-> command_queue, samples |-> <<>>,
            panicked |-> FALSE, last |-> "ClearNoSender"]
    ELSE IF ~TrySendOk(command_queue, CommandChannelBuffer)
      THEN [current_generation |-> current_generation + 1,
            command_queue |-> command_queue, samples |-> samples,
            panicked |-> TRUE, last |-> "ClearPanic"]
    ELSE [current_generation |-> current_generation + 1,
          command_queue |-> Append(command_queue, StopLoading),
          samples |-> <<>>, panicked |-> FALSE, last |-> "Clear"]

\* Waveform::clear
Clear ==
    /\ ~panicked
    /\ UNCHANGED not_waveform
    /\ LET after == clear IN
       /\ current_generation' = after.current_generation
       /\ command_queue' = after.command_queue
       /\ samples' = after.samples
       /\ panicked' = after.panicked
       /\ last' = after.last
       /\ blank' = ~after.panicked
       /\ late' = LateAfterSend(after.command_queue)
       /\ drawn' = IF after.samples = <<>> THEN <<>> ELSE drawn
    /\ UNCHANGED <<total_samples, command_sender, output, pc, command,
                   decoder, buffer, channel, accumulator, log, load, cancelled, dropped, sent>>

SamplesReadyAppendAlways(envelope, generation, message) ==
    envelope \o message.samples

\* Waveform::update, Message::SamplesReady: the envelope afterwards
SamplesReadyUpdate(envelope, generation, message) ==
    IF generation = message.generation
      THEN envelope \o message.samples
      ELSE envelope

LoadingStartedKeeps(envelope) == envelope

\* Waveform::update, Message::LoadingStarted: self.samples.clear()
LoadingStartedUpdate(envelope) == <<>>

\* Waveform::update, for the messages of the loader
WaveformUpdate ==
    /\ ~panicked
    /\ UNCHANGED not_waveform
    /\ output # <<>>
    /\ LET message == Head(output) IN
       /\ output' = Tail(output)
       /\ CASE message.type = "Initialized" ->
                 /\ command_sender' = TRUE
                 /\ last' = "Initialized"
                 /\ UNCHANGED <<samples, total_samples>>
            [] message.type = "LoadingStarted" ->
                 /\ samples' = LoadingStartedUpdate(samples)
                 /\ total_samples' = message.count
                 /\ last' = "LoadingStarted"
                 /\ UNCHANGED command_sender
            [] message.type = "LoadingFinished" ->
                 /\ last' = "LoadingFinished"
                 /\ UNCHANGED <<samples, total_samples, command_sender>>
            [] message.type = "SamplesReady" ->
                 /\ samples' = SamplesReadyUpdate(samples, current_generation, message)
                 /\ last' = IF current_generation = message.generation
                              THEN "Appended" ELSE "Stale"
                 /\ UNCHANGED <<total_samples, command_sender>>
            [] message.type = "Clear" ->
                 /\ samples' = <<>>
                 /\ total_samples' = None
                 /\ last' = "Cleared"
                 /\ UNCHANGED command_sender
       /\ drawn' = IF samples' = <<>> THEN <<>>
                   ELSE drawn \o [i \in 1 .. Len(samples') - Len(samples) |->
                                     message.generation]
    /\ UNCHANGED <<current_generation, command_queue, pc, command, decoder,
                   buffer, channel, accumulator, log, load, cancelled, dropped, sent, blank, late, panicked>>

----------------------------------------------------------------------------
(* waveform_loading: the loader task *)

\* output.send(message).await can complete
CanSend == Len(output) < ChannelCapacity(OutputChannelBuffer)

\* output.send(message).await, with the history of the load
Emit(message) ==
    /\ output' = Append(output, message)
    /\ log' = Append(log, message)

\* the sends of one process_command call
EmitAll(messages) ==
    /\ output' = output \o messages
    /\ log' = log \o messages

\* waveform_loading, before the loop: sends Initialized
LoaderStart ==
    /\ ~panicked
    /\ UNCHANGED not_waveform
    /\ pc = "Start"
    /\ CanSend
    /\ output' = Append(output, Initialized)
    /\ pc' = "Idle"
    /\ UNCHANGED <<samples, total_samples, current_generation, command_sender,
                   command_queue, command, decoder, buffer, channel, accumulator,
                   log, load, cancelled, dropped, last, sent, blank, drawn, late, panicked>>

\* State::Idle: command_receiver.next().await yields a command
LoaderIdle ==
    /\ ~panicked
    /\ UNCHANGED not_waveform
    /\ pc = "Idle"
    /\ command_queue # <<>>
    /\ command' = Head(command_queue)
    /\ command_queue' = Tail(command_queue)
    /\ load' = Head(command_queue)
    /\ log' = <<>>
    /\ cancelled' = FALSE
    /\ dropped' = FALSE
    /\ late' = None
    /\ pc' = "Process"
    /\ UNCHANGED <<samples, total_samples, current_generation, command_sender,
                   output, decoder, buffer, channel, accumulator, last, sent, blank, drawn, panicked>>

ProcessCommandSilentOnDecoderError(cmd) ==
    IF cmd.type = "LoadFile" /\ Openable(cmd.path)
      THEN IF DecoderBuilds(cmd.path)
             THEN <<LoadingStarted(SamplesCount(cmd.path))>>
             ELSE <<>>
      ELSE <<ClearMsg>>

ProcessCommandFallsThrough(cmd) ==
    IF cmd.type = "LoadFile" /\ Openable(cmd.path) /\ DecoderBuilds(cmd.path)
      THEN <<LoadingStarted(SamplesCount(cmd.path)), ClearMsg>>
      ELSE <<ClearMsg>>

\* process_command: the messages it sends
ProcessCommandMessages(cmd) ==
    IF cmd.type = "LoadFile" /\ Openable(cmd.path) /\ DecoderBuilds(cmd.path)
      THEN <<LoadingStarted(SamplesCount(cmd.path))>>
      ELSE <<ClearMsg>>

ProcessCommandStateDefaultGeneration(cmd) ==
    IF cmd.type = "LoadFile" /\ Openable(cmd.path) /\ DecoderBuilds(cmd.path)
      THEN [file |-> cmd.path, pos |-> 0,
            sample_rate |-> SampleRateOf(cmd.path), generation |-> 0]
      ELSE NoDecoder

\* process_command: the State it returns (NoDecoder is State::Idle)
ProcessCommandState(cmd) ==
    IF cmd.type = "LoadFile" /\ Openable(cmd.path) /\ DecoderBuilds(cmd.path)
      THEN [file |-> cmd.path, pos |-> 0,
            sample_rate |-> SampleRateOf(cmd.path), generation |-> cmd.generation]
      ELSE NoDecoder

\* process_command, and the head of State::Decoding when a decode starts
ProcessCommand ==
    /\ ~panicked
    /\ UNCHANGED not_waveform
    /\ pc = "Process"
    /\ CanSend
    /\ EmitAll(ProcessCommandMessages(command))
    /\ decoder' = ProcessCommandState(command)
    /\ pc' = IF ProcessCommandState(command) = NoDecoder THEN "Idle" ELSE "Decoding"
    /\ late' = IF ProcessCommandState(command) # NoDecoder /\ HoldsStop(command_queue)
                 THEN Some(0) ELSE None
    /\ command' = NoCommand
    /\ buffer' = <<>>
    /\ channel' = 0
    /\ accumulator' = 0
    /\ UNCHANGED <<samples, total_samples, current_generation, command_sender,
                   command_queue, load, cancelled, dropped, last, sent, blank, drawn, panicked>>

CancelsNever(polled) == FALSE

\* `if let Some(WaveformCommand::StopLoading) = command_receiver.next()
\* .now_or_never().flatten()`
Cancels(polled) == polled.type = "StopLoading"

\* one turn of `while let Some(sample) = decoder.next()`, up to the send
Decode ==
    /\ ~panicked
    /\ UNCHANGED not_waveform
    /\ pc = "Decoding"
    /\ IF decoder.pos = DecodedLen(decoder.file)
         THEN \* decoder.next() is None: the loop ends
              /\ pc' = "Flush"
              /\ UNCHANGED <<decoder, command_queue, buffer, channel, accumulator,
                             cancelled, dropped>>
         ELSE LET sample == SampleAt(decoder.file, decoder.pos + 1)
                  channels == Channels(decoder.file)
                  polled == IF command_queue = <<>> THEN NoCommand
                            ELSE Head(command_queue)
              IN
              /\ decoder' = [decoder EXCEPT !.pos = @ + 1]
              /\ command_queue' = IF command_queue = <<>> THEN command_queue
                                  ELSE Tail(command_queue)
              /\ IF Cancels(polled)
                   THEN /\ buffer' = <<>>
                        /\ cancelled' = TRUE
                        /\ pc' = "Flush"
                        /\ UNCHANGED <<channel, accumulator, dropped>>
                   ELSE /\ UNCHANGED cancelled
                        /\ dropped' = (dropped \/ polled.type = "LoadFile")
                        /\ IF channel + 1 = channels
                             THEN /\ buffer' = Append(buffer,
                                        (accumulator + sample) \div channels)
                                  /\ accumulator' = 0
                                  /\ channel' = channel + 1 - channels
                                  /\ pc' = IF Len(buffer) + 1 = BufferSize(decoder.sample_rate)
                                             THEN "SendChunk" ELSE "Decoding"
                             ELSE /\ accumulator' = accumulator + sample
                                  /\ channel' = channel + 1
                                  /\ pc' = "Decoding"
                                  /\ UNCHANGED buffer
    /\ UNCHANGED <<samples, total_samples, current_generation, command_sender,
                   output, command, log, load, last, sent, blank, drawn, late, panicked>>

\* the send of a full buffer inside the loop, then buffer.clear()
SendChunk ==
    /\ ~panicked
    /\ UNCHANGED not_waveform
    /\ pc = "SendChunk"
    /\ CanSend
    /\ Emit(SamplesReady(buffer, decoder.generation))
    /\ late' = LateAfterChunk
    /\ buffer' = <<>>
    /\ pc' = "Decoding"
    /\ UNCHANGED <<samples, total_samples, current_generation, command_sender,
                   command_queue, command, decoder, channel, accumulator, load,
                   cancelled, dropped, last, sent, blank, drawn, panicked>>

FlushNever(buf) == FALSE

\* `if !buffer.is_empty()` after the loop
FlushNeeded(buf) == buf # <<>>

\* after the loop: the last, partial chunk
Flush ==
    /\ ~panicked
    /\ UNCHANGED not_waveform
    /\ pc = "Flush"
    /\ IF FlushNeeded(buffer)
         THEN /\ CanSend
              /\ Emit(SamplesReady(buffer, decoder.generation))
              /\ late' = LateAfterChunk
         ELSE UNCHANGED <<output, log, late>>
    /\ pc' = "Finish"
    /\ UNCHANGED <<samples, total_samples, current_generation, command_sender,
                   command_queue, command, decoder, buffer, channel, accumulator,
                   load, cancelled, dropped, last, sent, blank, drawn, panicked>>

FinishMessagesUnlessCancelled(stopped) ==
    IF stopped THEN <<>> ELSE <<LoadingFinished>>

\* the messages sent after the decode loop and its flush, whether or not the
\* loop was left by the break of a StopLoading
FinishMessages(stopped) == <<LoadingFinished>>

\* output.send(Message::LoadingFinished); state = State::Idle
Finish ==
    /\ ~panicked
    /\ UNCHANGED not_waveform
    /\ pc = "Finish"
    /\ CanSend
    /\ EmitAll(FinishMessages(cancelled))
    /\ late' = None
    /\ decoder' = NoDecoder
    /\ buffer' = <<>>
    /\ channel' = 0
    /\ accumulator' = 0
    /\ pc' = "Idle"
    /\ UNCHANGED <<samples, total_samples, current_generation, command_sender,
                   command_queue, command, load, cancelled, dropped, last, sent, blank, drawn, panicked>>

----------------------------------------------------------------------------
(* FftProcessor *)

\* the samples first .. first + n - 1 of the input stream, named by their place
Slice(first, n) == [i \in 1 .. n |-> first + i - 1]

\* the forward FFT of a Hann-windowed block, left uninterpreted
Transform(window) == [fft_of |-> window]

ResetKeepsCarry(carry) == carry

\* FftProcessor::reset: the carry afterwards
ResetCarry(carry) == <<>>

\* FftProcessor::reset
FftReset ==
    /\ UNCHANGED not_fft
    /\ temporary' = ResetCarry(temporary)
    /\ fft_reset' = Some(Len(temporary))
    /\ fft_op' = "reset"
    /\ fft_fed' = 0
    /\ fft_results' = 0
    /\ UNCHANGED <<fft_result, fft_total>>

\* FftProcessor::process: the carry after self.temporary.extend(buffer)
Extended(carry, slice) == carry \o slice

\* FftProcessor::process: the carry afterwards and the value returned
Process(carry, slice, size) ==
    LET extended == Extended(carry, slice) IN
    IF Len(extended) >= size
      THEN [temporary |-> SubSeq(extended, size + 1, Len(extended)),
            result |-> Some(Transform(SubSeq(extended, 1, size)))]
      ELSE [temporary |-> extended, result |-> None]

\* a call of FftProcessor::process with the next n samples of the input
FftProcess(n) ==
    /\ UNCHANGED not_fft
    /\ fft_total + n <= MaxFed
    /\ LET done == Process(temporary, Slice(fft_total + 1, n), FftSize) IN
       /\ fft_result' = done.result
       /\ temporary' = done.temporary
       /\ fft_results' = fft_results + Cardinality(done.result)
    /\ fft_op' = "process"
    /\ fft_total' = fft_total + n
    /\ fft_fed' = fft_fed + n
    /\ UNCHANGED fft_reset

FftInit ==
    /\ temporary = <<>>
    /\ fft_result = None
    /\ fft_op = "new"
    /\ fft_total = 0
    /\ fft_fed = 0
    /\ fft_results = 0
    /\ fft_reset = None

FftNext ==
    \/ \E n \in 0 .. MaxSlice : FftProcess(n)
    \/ FftReset


----------------------------------------------------------------------------
(* The waveform widget and its loader *)

WaveformInit ==
    /\ samples = <<>>
    /\ total_samples = None
    /\ current_generation = 0
    /\ command_sender = FALSE
    /\ command_queue = <<>>
    /\ output = <<>>
    /\ pc = "Start"
    /\ command = NoCommand
    /\ decoder = NoDecoder
    /\ buffer = <<>>
    /\ channel = 0
    /\ accumulator = 0
    /\ log = <<>>
    /\ load = NoCommand
    /\ cancelled = FALSE
    /\ dropped = FALSE
    /\ last = "New"
    /\ sent = 0
    /\ blank = FALSE
    /\ drawn = <<>>
    /\ late = None

\* show() and clear() calls of the user's selections
WaveformShow == \E path \in Files : current_generation < MaxGen /\ Show(path)
WaveformClear == current_generation < MaxGen /\ Clear

WaveformNext ==
    \/ WaveformShow
    \/ WaveformClear
    \/ WaveformUpdate
    \/ LoaderStart
    \/ LoaderIdle
    \/ ProcessCommand
    \/ Decode
    \/ SendChunk
    \/ Flush
    \/ Finish


\* Waveform::show of the mono file and Waveform::clear, as often as the
\* command channel has room for and once more
ShowAgain == current_generation < MaxShows /\ Show(1)
ClearAgain == current_generation < MaxShows /\ Clear

\* the widget and its loader under selections that come faster than the loader
\* takes its commands
SupersedeNext ==
    \/ ShowAgain
    \/ ClearAgain
    \/ WaveformUpdate
    \/ LoaderStart
    \/ LoaderIdle
    \/ ProcessCommand
    \/ Decode
    \/ SendChunk
    \/ Flush
    \/ Finish

----------------------------------------------------------------------------
(* The loader under a client that sends it any commands, as its test does *)

Commands == {StopLoading} \cup
            {LoadFile(path, generation) : path \in Files, generation \in 0 .. 1}

\* command_sender.send(command).await of a client
SendCommand(cmd) ==
    /\ ~panicked
    /\ UNCHANGED not_waveform
    /\ command_sender
    /\ sent < MaxCommands
    /\ TrySendOk(command_queue, CommandChannelBuffer)
    /\ command_queue' = Append(command_queue, cmd)
    /\ late' = LateAfterSend(Append(command_queue, cmd))
    /\ sent' = sent + 1
    /\ UNCHANGED <<samples, total_samples, current_generation, command_sender,
                   output, pc, command, decoder, buffer, channel, accumulator,
                   log, load, cancelled, dropped, last, blank, drawn, panicked>>

LoaderNext ==
    \/ \E cmd \in Commands : SendCommand(cmd)
    \/ WaveformUpdate
    \/ LoaderStart
    \/ LoaderIdle
    \/ ProcessCommand
    \/ Decode
    \/ SendChunk
    \/ Flush
    \/ Finish

----------------------------------------------------------------------------
(* The tracks a path may name, as rodio's Decoder sees them *)

Tracks == 1 .. 4

\* a mono track of blocks of one sample, long enough to fill the event channel
LongTrack == 5

\* File::open and rodio::Decoder::new are both Ok
\* a mono track of 30 samples per second
SlowTrack == 6

\* a stereo track of 90 frames per second: 3 samples in a sixtieth of a second
OddTrack == 7

TrackDecodes(t) == t \in {1, 2, 4, LongTrack, SlowTrack, OddTrack}

\* Source::channels
TrackChannels(t) == IF t \in {2, OddTrack} THEN 2 ELSE 1

\* Source::sample_rate
TrackRate(t) == CASE t \in {2, LongTrack} -> 60
                  [] t = SlowTrack -> 30
                  [] t = OddTrack -> 90
                  [] OTHER -> 120

\* length of the sample sequence the source yields
TrackLen(t) == CASE t = 1 -> MonoTrackLen
                 [] t = 2 -> StereoTrackLen
                 [] t = LongTrack -> LongTrackLen
                 [] t = SlowTrack -> SlowTrackLen
                 [] t = OddTrack -> OddTrackLen
                 [] OTHER -> 0

\* the i-th sample (1-based) of the source; full scale is 2.  The mono track is
\* at full scale, the stereo track has its left channel at full scale and its
\* right channel silent
TrackSample(t, i) == IF t = 2 /\ i % 2 = 0 THEN 0 ELSE 2

\* Source::total_duration, in frames; the stereo track's format does not tell it,
\* and track 4 is a file with a header and no samples
TrackDuration(t) == IF t \in {1, 4, LongTrack, SlowTrack} THEN Some(TrackLen(t)) ELSE None

----------------------------------------------------------------------------
(* Messages and channels of the audio engine *)

Play(path) == [type |-> "Play", path |-> path]
Stop == [type |-> "Stop", path |-> 0]
InitializeCommand == [type |-> "Initialize", path |-> 0]
QueryPosition == [type |-> "QueryPosition", path |-> 0]
\* AudioCommand::SetPosition(fraction); the fraction is counted in halves
SetPosition(fraction) == [type |-> "SetPosition", path |-> fraction]

\* the fractions a SetPosition may carry, in halves: below 0, inside 0..1, above 1
Fractions == {-1, 1, 3}

\* crate::Message::Audio(Message::Initialize(command_sender))
InitializeMsg ==
    [type |-> "Initialize", channels |-> 0, samples |-> <<>>, rate |-> 0,
     session |-> 0, origin |-> "engine"]
\* waveform::Message::PlayPosition(position); the quotient is kept as num/den
PlayPosition(elapsed, duration) ==
    [type |-> "PlayPosition", channels |-> 0, samples |-> <<>>, rate |-> 0,
     session |-> 0, origin |-> "engine", position |-> [num |-> elapsed, den |-> duration]]
\* visualization::Message::SampleRateChanged, with the session it belongs to
SampleRateChanged(rate, s) ==
    [type |-> "SampleRateChanged", channels |-> 0, samples |-> <<>>, rate |-> rate,
     session |-> s, origin |-> "engine"]
\* visualization::Message::AudioBuffer, with the session it belongs to and the
\* place that sent it: "tap" (a full block), "eof" or "stop"
AudioBuffer(channels, block, s, origin) ==
    [type |-> "AudioBuffer", channels |-> channels, samples |-> block, rate |-> 0,
     session |-> s, origin |-> origin]

\* mpsc::channel::<AudioCommand>(8): the buffer
AudioCommandBuffer == 8
\* iced::stream::channel(64, ..): the buffer
EventChannelBuffer == 64

IsParked(queue, sender) == \E i \in DOMAIN queue : queue[i] = sender

\* Sender::try_send on the event channel ch = [events, parked, ok]: refused when
\* the sender is parked; a sender parks when its message is one beyond the buffer
TrySend(ch, sender, message) ==
    IF ~ch.ok \/ IsParked(ch.parked, sender)
      THEN [ch EXCEPT !.ok = FALSE]
      ELSE [events |-> Append(ch.events, message),
            parked |-> IF Len(ch.events) + 1 > EventChannelBuffer
                         THEN Append(ch.parked, sender) ELSE ch.parked,
            ok |-> TRUE]

EventChannel == [events |-> events, parked |-> parked, ok |-> TRUE]

\* the messages ch holds beyond those of `events`
Sent(ch) == SubSeq(ch.events, Len(events) + 1, Len(ch.events))

\* the empty blocks among messages that come from origin
EmptyBlocks(messages, origin) ==
    Cardinality({i \in DOMAIN messages :
        /\ messages[i].type = "AudioBuffer"
        /\ messages[i].samples = <<>>
        /\ messages[i].origin = origin})

----------------------------------------------------------------------------
(* struct Audio *)

\* Audio::send_command: expect("command sender initialized"), expect("send command")
SendCommandOk == audio_sender /\ Len(audio_commands) < ChannelCapacity(AudioCommandBuffer)

\* Audio::play and Audio::stop
AudioSend(cmd) ==
    /\ UNCHANGED not_audio
    /\ ~panicked
    /\ audio_ops < MaxAudioOps
    /\ audio_ops' = audio_ops + 1
    /\ IF SendCommandOk
         THEN audio_commands' = Append(audio_commands, cmd) /\ UNCHANGED panicked
         ELSE panicked' = TRUE /\ UNCHANGED audio_commands
    /\ UNCHANGED <<output_stream, audio_sender, events, parked, epc, mixer, sink,
                   current_file_duration, current_file_path, sources,
                   levels_per_channel, points, scope_buffer, spectrum, tuner,
                   session, history, silenced, sink_pos, play_position>>

\* Audio::send_command_if_possible, from Audio::update: QueryPosition of the
\* frame timer (there is one only with an output stream) and SetPosition of a
\* click on the waveform
AudioSendIfPossible(cmd) ==
    /\ UNCHANGED not_audio
    /\ ~panicked
    /\ audio_ops < MaxAudioOps
    /\ audio_ops' = audio_ops + 1
    /\ audio_commands' =
          IF audio_sender /\ Len(audio_commands) < ChannelCapacity(AudioCommandBuffer)
            THEN Append(audio_commands, cmd) ELSE audio_commands
    /\ UNCHANGED <<output_stream, audio_sender, events, parked, epc, mixer, sink,
                   current_file_duration, current_file_path, sources,
                   levels_per_channel, points, scope_buffer, spectrum, tuner,
                   session, history, silenced, sink_pos, play_position, panicked>>

----------------------------------------------------------------------------
(* run_audio_player: the engine task *)

\* run_audio_player, before the loop: sends Initialize.  Audio::subscription runs
\* the task only when the output stream was opened
EngineStart ==
    /\ UNCHANGED not_audio
    /\ ~panicked
    /\ output_stream
    /\ epc = "Start"
    /\ ~IsParked(parked, 0)
    /\ LET ch == TrySend(EventChannel, 0, InitializeMsg) IN
       /\ events' = ch.events
       /\ parked' = ch.parked
    /\ epc' = "Loop"
    /\ UNCHANGED <<output_stream, audio_sender, audio_commands, mixer, sink,
                   current_file_duration, current_file_path, sources,
                   levels_per_channel, points, scope_buffer, spectrum, tuner,
                   audio_ops, session, history, silenced, panicked, sink_pos,
                   play_position>>

\* AudioCommand::Initialize
EngineInitialize ==
    /\ mixer' = TRUE
    /\ history' = [history EXCEPT !.last = "Initialize"]
    /\ UNCHANGED <<events, parked, sink, current_file_duration, current_file_path,
                   sources, session, panicked, sink_pos>>

\* Drop for Sink, and Sink::stop: rodio raises the sink's `stopped` flag, which
\* the playback thread reads in its periodic access of the sink's sources
RequestStop(the_sink) ==
    {IF src.sink \in the_sink THEN [src EXCEPT !.stop = TRUE] ELSE src : src \in sources}

\* AudioCommand::Play
EnginePlay(path) ==
    IF ~mixer
      THEN /\ history' = [history EXCEPT !.last = "Play"]
           /\ UNCHANGED <<mixer, events, parked, sink, current_file_duration,
                          current_file_path, sources, session, panicked, sink_pos>>
      ELSE LET new_sink == history.sinks + 1
               started == TrySend(EventChannel, session + 1,
                                  SampleRateChanged(TrackRate(path), session + 1))
           IN
           /\ sink' = Some(new_sink)
           /\ sink_pos' = 0
           /\ IF TrackDecodes(path)
                THEN /\ session' = session + 1
                     /\ events' = started.events
                     /\ parked' = started.parked
                     /\ current_file_path' = Some(path)
                     /\ current_file_duration' = TrackDuration(path)
                     /\ sources' = RequestStop(sink) \cup
                           {[id |-> session + 1, sink |-> new_sink, track |-> path,
                             pos |-> 0, buffer |-> <<>>, stop |-> FALSE]}
                ELSE /\ sources' = RequestStop(sink)
                     /\ UNCHANGED <<session, events, parked, current_file_path,
                                    current_file_duration>>
           /\ history' = [history EXCEPT
                            !.sinks = new_sink,
                            !.halted = IF TrackDecodes(path) THEN FALSE ELSE @,
                            !.last = "Play"]
           /\ UNCHANGED <<mixer, panicked>>

\* AudioCommand::Stop: the messages it sends
StopMessages(the_sink) ==
    IF the_sink = None THEN <<>>
    ELSE <<SampleRateChanged(0, session), AudioBuffer(0, <<>>, session, "stop")>>

RECURSIVE TrySendAll(_, _, _)
\* consecutive try_send(..).unwrap() of one sender
TrySendAll(ch, sender, messages) ==
    IF messages = <<>> THEN ch
    ELSE TrySendAll(TrySend(ch, sender, Head(messages)), sender, Tail(messages))

AfterStopKeeps(the_sink, field) == field

\* AudioCommand::Stop: current_file_path or current_file_duration afterwards
AfterStop(the_sink, field) == IF the_sink = None THEN field ELSE None

\* AudioCommand::Stop
EngineStop ==
    LET ch == TrySendAll(EventChannel, 0, StopMessages(sink)) IN
    /\ events' = ch.events
    /\ parked' = ch.parked
    /\ panicked' = ~ch.ok
    /\ sources' = RequestStop(sink)
    /\ current_file_path' = AfterStop(sink, current_file_path)
    /\ current_file_duration' = AfterStop(sink, current_file_duration)
    /\ history' = [history EXCEPT
                     !.halted = TRUE,
                     !.last = "Stop",
                     !.stops = @ + 1,
                     !.empty_stop = @ + EmptyBlocks(Sent(ch), "stop")]
    /\ UNCHANGED <<mixer, sink, session, sink_pos>>

\* AudioCommand::QueryPosition: the messages it sends
PositionMessages ==
    IF sink = None \/ current_file_duration = None THEN <<>>
    ELSE <<PlayPosition(sink_pos, CHOOSE d \in current_file_duration : TRUE)>>

\* AudioCommand::QueryPosition; output.send(..).await waits for room
EngineQueryPosition ==
    LET ch == TrySendAll(EventChannel, 0, PositionMessages) IN
    /\ PositionMessages # <<>> => ~IsParked(parked, 0)
    /\ events' = ch.events
    /\ parked' = ch.parked
    /\ history' = [history EXCEPT !.last = "QueryPosition"]
    /\ UNCHANGED <<mixer, sink, current_file_duration, current_file_path, sources,
                   session, panicked, sink_pos>>

\* sink.empty()
SinkEmpty == ~\E src \in sources : src.sink \in sink

\* the body of AudioCommand::SetPosition.  File::open and the decoder's try_seek are calls
\* that return a Result: `opened` and `accepted` are what they return this time
SetPositionSteps(fraction, opened, accepted) ==
    IF sink = None \/ current_file_duration = None
      THEN UNCHANGED <<mixer, events, parked, sink, current_file_duration,
                       current_file_path, sources, session, panicked, sink_pos>>
    ELSE IF fraction < 0
      \* Duration::from_secs_f32 of a negative value
      THEN /\ panicked' = TRUE
           /\ UNCHANGED <<mixer, events, parked, sink, current_file_duration,
                          current_file_path, sources, session, sink_pos>>
    ELSE LET duration == CHOOSE d \in current_file_duration : TRUE
             position == (duration * fraction) \div 2
             restart == SinkEmpty /\ current_file_path # None /\ opened
             path == CHOOSE t \in current_file_path : TRUE
             started == TrySend(EventChannel, session + 1,
                                SampleRateChanged(TrackRate(path), session + 1))
             fresh == [id |-> session + 1, sink |-> CHOOSE k \in sink : TRUE,
                       track |-> path, pos |-> 0, buffer |-> <<>>, stop |-> FALSE]
             appended == IF restart THEN sources \cup {fresh} ELSE sources
             seeks == \E src \in appended : src.sink \in sink
         IN
         /\ IF restart
              THEN /\ session' = session + 1
                   /\ events' = started.events
                   /\ parked' = started.parked
              ELSE UNCHANGED <<session, events, parked>>
         /\ panicked' = (seeks /\ ~accepted)
         /\ sources' =
               IF seeks /\ accepted
                 THEN {IF src.sink \in sink
                         THEN [src EXCEPT !.pos =
                                 IF position * TrackChannels(src.track) < TrackLen(src.track)
                                   THEN position * TrackChannels(src.track)
                                   ELSE TrackLen(src.track)]
                         ELSE src : src \in appended}
                 ELSE appended
         /\ sink_pos' = IF seeks THEN position ELSE sink_pos
         /\ UNCHANGED <<mixer, sink, current_file_duration, current_file_path>>

\* AudioCommand::SetPosition
EngineSetPosition(fraction, opened, accepted) ==
    /\ history' = [history EXCEPT !.last = "SetPosition"]
    /\ SetPositionSteps(fraction, opened, accepted)

\* one turn of `while let Some(command) = command_receiver.next().await`
EngineCommand ==
    /\ UNCHANGED not_audio
    /\ ~panicked
    /\ epc = "Loop"
    /\ audio_commands # <<>>
    /\ audio_commands' = Tail(audio_commands)
    /\ LET cmd == Head(audio_commands) IN
       CASE cmd.type = "Initialize" -> EngineInitialize
         [] cmd.type = "Play" -> EnginePlay(cmd.path)
         [] cmd.type = "Stop" -> EngineStop
         [] cmd.type = "QueryPosition" -> EngineQueryPosition
         [] cmd.type = "SetPosition" ->
              \E opened, accepted \in BOOLEAN :
                  EngineSetPosition(cmd.path, opened, accepted)
    /\ UNCHANGED <<output_stream, audio_sender, epc, levels_per_channel, points,
                   scope_buffer, spectrum, tuner, audio_ops, silenced, play_position>>

----------------------------------------------------------------------------
(* details::SourcePicker, pulled by rodio's playback thread *)

\* SourcePicker::new: buffer_capacity
BufferCapacity(t) == (TrackRate(t) * TrackChannels(t)) \div 60

EndOfStreamFlushes(src) ==
    IF src.buffer = <<>>
      THEN <<AudioBuffer(TrackChannels(src.track), <<>>, src.id, "eof")>>
      ELSE <<AudioBuffer(TrackChannels(src.track), src.buffer, src.id, "eof"),
             AudioBuffer(TrackChannels(src.track), <<>>, src.id, "eof")>>

\* Iterator::next of a SourcePicker, None: the blocks that self.buffer.clear()
\* and self.submit_buffer() send
EndOfStreamBlocks(src) ==
    <<AudioBuffer(TrackChannels(src.track), <<>>, src.id, "eof")>>

\* Iterator::next of a SourcePicker: push_sample and submit_buffer, or the end
TapNext(src) ==
    /\ UNCHANGED not_audio
    /\ ~panicked
    /\ src \in sources
    /\ sink_pos' = IF src.sink \in sink /\ src.pos < TrackLen(src.track)
                      THEN (src.pos + 1) \div TrackChannels(src.track)
                      ELSE sink_pos
    /\ IF src.pos < TrackLen(src.track)
         THEN LET filled == Append(src.buffer, TrackSample(src.track, src.pos + 1))
                  full == Len(filled) = BufferCapacity(src.track)
                  ch == IF full
                          THEN TrySend(EventChannel, src.id,
                                   AudioBuffer(TrackChannels(src.track), filled, src.id, "tap"))
                          ELSE EventChannel
              IN
              /\ events' = ch.events
              /\ parked' = ch.parked
              /\ panicked' = ~ch.ok
              /\ sources' = (sources \ {src}) \cup
                    {[src EXCEPT !.pos = @ + 1,
                                 !.buffer = IF full THEN <<>> ELSE filled]}
              /\ UNCHANGED history
         ELSE LET ch == TrySendAll(EventChannel, src.id, EndOfStreamBlocks(src))
              IN
              /\ events' = ch.events
              /\ parked' = ch.parked
              /\ panicked' = ~ch.ok
              /\ sources' = sources \ {src}
              /\ history' = [history EXCEPT
                               !.eofs = @ + 1,
                               !.empty_eof = @ + EmptyBlocks(Sent(ch), "eof")]
    /\ UNCHANGED <<output_stream, audio_sender, audio_commands, epc, mixer, sink,
                   current_file_duration, current_file_path, levels_per_channel,
                   points, scope_buffer, spectrum, tuner, audio_ops, session,
                   silenced, play_position>>

\* the playback thread's periodic access finds the `stopped` flag of the sink
\* raised and drops the source
TapObserveStop(src) ==
    /\ UNCHANGED not_audio
    /\ ~panicked
    /\ src \in sources
    /\ src.stop
    /\ sources' = sources \ {src}
    /\ UNCHANGED <<output_stream, audio_sender, audio_commands, events, parked,
                   epc, mixer, sink, current_file_duration, current_file_path,
                   levels_per_channel, points, scope_buffer, spectrum, tuner,
                   audio_ops, session, history, silenced, panicked, sink_pos,
                   play_position>>

----------------------------------------------------------------------------
(* Visualization: the fan-out of a block to the analyzers *)

RECURSIVE SumSquares(_, _, _)
\* the sum of the squares of the samples of channel c (0-based) from index i on
SumSquares(block, channels, c) ==
    IF block = <<>> THEN 0
    ELSE LET n == Len(block) IN
         (IF (n - 1) % channels = c THEN block[n] * block[n] ELSE 0)
         + SumSquares(SubSeq(block, 1, n - 1), channels, c)

\* Visualization::compute_rms: per channel, the mean square as [sum, frames]
\* (the root is taken by the reader of the value)
compute_rms(channels, block) ==
    IF block = <<>> \/ channels = 0 THEN <<>>
    ELSE [c \in 1 .. channels |->
             [sum |-> SumSquares(block, channels, c - 1),
              frames |-> Len(block) \div channels]]

\* Visualization::vectorscope; ok is FALSE when samples[i + 1] is out of bounds
vectorscope(channels, block) ==
    IF channels = 0 \/ block = <<>> THEN [ok |-> TRUE, points |-> <<>>]
    ELSE CASE channels = 1 ->
                [ok |-> TRUE, points |-> [i \in DOMAIN block |-> <<block[i], block[i]>>]]
           [] channels = 2 ->
                [ok |-> Len(block) % 2 = 0,
                 points |-> [i \in 1 .. (Len(block) \div 2) |->
                                <<block[2 * i - 1], block[2 * i]>>]]
           [] OTHER -> [ok |-> TRUE, points |-> <<>>]

RECURSIVE Sum(_)
\* chunk.sum()
Sum(chunk) == IF chunk = <<>> THEN 0 ELSE Head(chunk) + Sum(Tail(chunk))

\* Visualization::mono: the average of each frame (whole division);
\* ok is FALSE when the trailing partial chunk indexes past frame_count
mono(channels, block) ==
    IF block = <<>> THEN [ok |-> TRUE, samples |-> <<>>]
    ELSE IF channels = 1 THEN [ok |-> TRUE, samples |-> block]
    ELSE [ok |-> Len(block) % channels = 0,
          samples |-> [i \in 1 .. (Len(block) \div channels) |->
              Sum(SubSeq(block, (i - 1) * channels + 1, i * channels))
                  \div channels]]

\* VuMeter::update: ((20 log10(rms) + 60) / 60).clamp(0, 1) of one channel, as
\* the fraction num/den: 0 up to an rms of a thousandth of full scale, 1 from
\* full scale on, and the mean square in between
Level(rms) ==
    IF rms.sum * 1000000 <= 4 * rms.frames THEN [num |-> 0, den |-> 1]
    ELSE IF rms.sum >= 4 * rms.frames THEN [num |-> 1, den |-> 1]
    ELSE [num |-> rms.sum, den |-> 4 * rms.frames]

\* VuMeter::update, Message::Rms: resize, then one level per channel
VuMeterUpdate(rms_per_channel) ==
    [c \in DOMAIN rms_per_channel |-> Level(rms_per_channel[c])]

MIN_FREQ == 20
MAX_FREQ == 10000

\* the bins (0-based) below half the transform whose frequency is displayed
BinsInRange(sample_rate, size) ==
    {index \in 0 .. (size \div 2) - 1 :
        /\ MIN_FREQ * size <= sample_rate * index
        /\ sample_rate * index <= MAX_FREQ * size}

RECURSIVE Ascending(_)
\* the members of a set of numbers, in increasing order
Ascending(set) ==
    IF set = {} THEN <<>>
    ELSE LET low == CHOOSE x \in set : \A y \in set : x <= y IN
         <<low>> \o Ascending(set \ {low})

\* Spectrum::process_buffer
SpectrumProcessBuffer(state, block) ==
    LET extended == state.temporary \o block IN
    IF Len(extended) >= SpectrumFftSize
      THEN LET window == SubSeq(extended, 1, SpectrumFftSize)
               bins == Ascending(BinsInRange(state.sample_rate, SpectrumFftSize))
           IN [state EXCEPT
                 !.display_buffer = [i \in DOMAIN bins |->
                                        [bin |-> bins[i], of |-> window]],
                 !.temporary = SubSeq(extended, SpectrumFftSize + 1, Len(extended))]
      ELSE [state EXCEPT !.temporary = extended]

\* Spectrum::update, Message::Buffer
SpectrumBuffer(state, block) ==
    IF block = <<>> THEN [state EXCEPT !.display_buffer = <<>>]
    ELSE SpectrumProcessBuffer(state, block)

\* compute_signal_power(..) >= 1e-6, with full scale 2
PowerAboveFloor(block) == SumSquares(block, 1, 0) * 1000000 >= 4 * Len(block)

TunerProcessBufferNoFloor(state, block) ==
    LET done == Process(state.temporary, block, TunerFftSize) IN
    IF done.result = None THEN [state EXCEPT !.temporary = done.temporary]
    ELSE [state EXCEPT !.temporary = done.temporary, !.display = ""]

\* Tuner::process_buffer.  The magnitude of a displayed bin is taken to be
\* positive exactly when the window is not all zeroes; then the harmonic
\* product keeps a positive entry and a note is shown
TunerProcessBuffer(state, block) ==
    IF ~PowerAboveFloor(block) THEN state
    ELSE LET done == Process(state.temporary, block, TunerFftSize) IN
         IF done.result = None THEN [state EXCEPT !.temporary = done.temporary]
         ELSE LET window == (CHOOSE r \in done.result : TRUE).fft_of
                  heard == /\ BinsInRange(state.sample_rate, TunerFftSize) # {}
                           /\ \E i \in DOMAIN window : window[i] # 0
              IN [state EXCEPT
                    !.temporary = done.temporary,
                    !.display = IF heard THEN "note" ELSE ""]

\* Tuner::update, Message::Buffer
TunerBuffer(state, block) ==
    IF block = <<>> THEN [state EXCEPT !.display = ""]
    ELSE TunerProcessBuffer(state, block)

----------------------------------------------------------------------------
(* The UI thread takes a message of the engine *)

\* Audio::update, Message::Initialize
AudioInitialize ==
    /\ IF output_stream
         THEN /\ audio_sender' = TRUE
              /\ IF Len(audio_commands) < ChannelCapacity(AudioCommandBuffer)
                   THEN /\ audio_commands' = Append(audio_commands, InitializeCommand)
                        /\ UNCHANGED panicked
                   ELSE panicked' = TRUE /\ UNCHANGED audio_commands
         ELSE UNCHANGED <<audio_sender, audio_commands, panicked>>
    /\ UNCHANGED <<levels_per_channel, points, scope_buffer, spectrum, tuner,
                   silenced, play_position>>

\* Waveform::update, Message::PlayPosition
WaveformPlayPosition(message) ==
    /\ play_position' = message.position
    /\ UNCHANGED <<audio_sender, audio_commands, panicked, levels_per_channel,
                   points, scope_buffer, spectrum, tuner, silenced>>

\* Visualization::update, Message::SampleRateChanged
VisualizationSampleRateChanged(message) ==
    /\ spectrum' = [spectrum EXCEPT !.sample_rate = message.rate]
    /\ tuner' = [tuner EXCEPT !.sample_rate = message.rate]
    /\ UNCHANGED <<audio_sender, audio_commands, panicked, levels_per_channel,
                   points, scope_buffer, silenced, play_position>>

\* Visualization::update, Message::AudioBuffer, and the five updates of its batch
VisualizationAudioBuffer(message) ==
    LET rms == compute_rms(message.channels, message.samples)
        xy == vectorscope(message.channels, message.samples)
        averaged == mono(message.channels, message.samples)
    IN
    /\ UNCHANGED <<audio_sender, audio_commands, play_position>>
    /\ IF xy.ok /\ averaged.ok
         THEN /\ levels_per_channel' = VuMeterUpdate(rms)
              /\ points' = xy.points
              /\ scope_buffer' = averaged.samples
              /\ spectrum' = SpectrumBuffer(spectrum, averaged.samples)
              /\ tuner' = TunerBuffer(tuner, averaged.samples)
              /\ silenced' = IF message.samples = <<>> THEN Some(message.session)
                             ELSE IF \E s \in silenced : message.session > s THEN None
                             ELSE silenced
              /\ UNCHANGED panicked
         ELSE /\ panicked' = TRUE
              /\ UNCHANGED <<levels_per_channel, points, scope_buffer, spectrum,
                             tuner, silenced>>

\* the runtime delivers the next message of the engine's stream to SEx::update
AudioEvent ==
    /\ UNCHANGED not_audio
    /\ ~panicked
    /\ events # <<>>
    /\ events' = Tail(events)
    /\ parked' = IF parked = <<>> THEN parked ELSE Tail(parked)
    /\ LET message == Head(events) IN
       CASE message.type = "Initialize" -> AudioInitialize
         [] message.type = "SampleRateChanged" -> VisualizationSampleRateChanged(message)
         [] message.type = "AudioBuffer" -> VisualizationAudioBuffer(message)
         [] message.type = "PlayPosition" -> WaveformPlayPosition(message)
    /\ UNCHANGED <<output_stream, epc, mixer, sink, current_file_duration,
                   current_file_path, sources, audio_ops, session, history, sink_pos>>

----------------------------------------------------------------------------
(* The audio component *)

\* Audio::new, VuMeter::new, Vectorscope::new, Scope::new, Spectrum::new, Tuner::new
AudioInit ==
    /\ output_stream \in BOOLEAN
    /\ audio_sender = FALSE
    /\ audio_commands = <<>>
    /\ events = <<>>
    /\ parked = <<>>
    /\ epc = "Start"
    /\ mixer = FALSE
    /\ sink = None
    /\ current_file_duration = None
    /\ current_file_path = None
    /\ sources = {}
    /\ levels_per_channel = <<>>
    /\ points = <<>>
    /\ scope_buffer = <<>>
    /\ spectrum = [temporary |-> <<>>, sample_rate |-> 0, display_buffer |-> <<>>]
    /\ tuner = [temporary |-> <<>>, sample_rate |-> 0, display |-> ""]
    /\ audio_ops = 0
    /\ session = 0
    /\ history = [stops |-> 0, eofs |-> 0, empty_stop |-> 0, empty_eof |-> 0,
                  sinks |-> 0, halted |-> FALSE, last |-> "none"]
    /\ silenced = None
    /\ sink_pos = 0
    /\ play_position = [num |-> 0, den |-> 1]

AudioPlay == \E path \in Tracks : AudioSend(Play(path))
AudioStop == AudioSend(Stop)
AudioQueryPosition == output_stream /\ AudioSendIfPossible(QueryPosition)
AudioSetPosition == \E fraction \in Fractions : AudioSendIfPossible(SetPosition(fraction))
Tap == \E src \in sources : TapNext(src)
ObserveStop == \E src \in sources : TapObserveStop(src)

\* Audio::play of the long track, as the first call of the run
AudioPlayLong == audio_ops = 0 /\ AudioSend(Play(LongTrack))

\* the UI takes the engine's Initialize, and no message after it
AudioEventInitialize == events # <<>> /\ Head(events).type = "Initialize" /\ AudioEvent

\* the engine and the playback thread of a long track, with a UI that sends
\* commands and does not take the engine's messages
StallNext ==
    \/ AudioPlayLong
    \/ AudioStop
    \/ AudioQueryPosition
    \/ EngineStart
    \/ EngineCommand
    \/ Tap
    \/ AudioEventInitialize

\* Audio::play of the slow track
AudioPlaySlow == AudioSend(Play(SlowTrack))

\* the engine, the playback thread and the UI when the slow track is played
SlowNext ==
    \/ AudioPlaySlow
    \/ AudioStop
    \/ AudioQueryPosition
    \/ EngineStart
    \/ EngineCommand
    \/ Tap
    \/ ObserveStop
    \/ AudioEvent

\* Audio::play of the stereo track of 90 frames per second
AudioPlayOdd == AudioSend(Play(OddTrack))

\* the engine, the playback thread and the UI when that track is played
OddNext ==
    \/ AudioPlayOdd
    \/ AudioStop
    \/ AudioQueryPosition
    \/ EngineStart
    \/ EngineCommand
    \/ Tap
    \/ ObserveStop
    \/ AudioEvent

AudioNext ==
    \/ AudioPlay
    \/ AudioStop
    \/ AudioQueryPosition
    \/ AudioSetPosition
    \/ EngineStart
    \/ EngineCommand
    \/ Tap
    \/ ObserveStop
    \/ AudioEvent

----------------------------------------------------------------------------
(* SEx::update: the selection of a file drives the engine and the waveform *)

\* the paths a SelectFile(Some(path)) may carry: a sound file, a hidden sound
\* file, a text file, and a directory with the name of a sound file
SelectPaths ==
    { [track |-> 1, file |-> 1, is_file |-> TRUE, hidden |-> FALSE, extension |-> "wav"],
      [track |-> 2, file |-> 2, is_file |-> TRUE, hidden |-> TRUE, extension |-> "flac"],
      [track |-> 3, file |-> 3, is_file |-> TRUE, hidden |-> FALSE, extension |-> "txt"],
      [track |-> 3, file |-> 3, is_file |-> FALSE, hidden |-> FALSE, extension |-> "ogg"] }

\* display_file
display_file(path) ==
    IF path.hidden THEN FALSE
    ELSE path.extension \in {"wav", "flac", "ogg", "mp3"}

\* the fields of the audio engine, its consumers and the waveform that neither
\* Audio::play / Audio::stop nor Waveform::show / Waveform::clear touch
SelectFrame ==
    UNCHANGED <<fvars, evars, vis, pitch, total_samples, command_sender, output, pc, command, decoder,
                buffer, channel, accumulator, log, load, cancelled, dropped, sent, late,
                output_stream, audio_sender, events, parked, epc, mixer, sink,
                current_file_duration, current_file_path, sources,
                levels_per_channel, points, scope_buffer, spectrum, tuner,
                session, history, silenced, sink_pos, play_position>>

\* SEx::update, Message::SelectFile(Some(path))
SelectFile(path) ==
    /\ ~panicked
    /\ SelectFrame
    /\ audio_ops < MaxAudioOps
    /\ current_generation < MaxGen
    /\ audio_ops' = audio_ops + 1
    /\ IF path.is_file /\ display_file(path)
         THEN /\ IF SendCommandOk
                   THEN LET after == show(path.file) IN
                        /\ audio_commands' = Append(audio_commands, Play(path.track))
                        /\ current_generation' = after.current_generation
                        /\ command_queue' = after.command_queue
                        /\ last' = after.last
                        /\ panicked' = after.panicked
                        /\ selection' = [event |-> "supported", calls |-> <<"play", "show">>]
                        /\ tasks' = Append(tasks, "Visualization")
                        /\ blank' = FALSE
                   ELSE /\ panicked' = TRUE
                        /\ selection' = [event |-> "supported", calls |-> <<"play">>]
                        /\ UNCHANGED <<audio_commands, current_generation,
                                       command_queue, last, tasks, blank>>
              /\ UNCHANGED pending
         ELSE /\ pending' = pending + 1
              /\ selection' = [event |-> "unsupported", calls |-> <<>>]
              /\ UNCHANGED <<audio_commands, current_generation, command_queue,
                             last, panicked, tasks, blank>>
    /\ UNCHANGED <<samples, drawn>>

\* SEx::update, Message::SelectFile(None), of the user or of the Task::done of
\* an unsupported selection
SelectFileNone ==
    /\ ~panicked
    /\ SelectFrame
    /\ UNCHANGED tasks
    /\ current_generation < MaxGen
    /\ \/ pending > 0 /\ pending' = pending - 1 /\ UNCHANGED audio_ops
       \/ audio_ops < MaxAudioOps /\ audio_ops' = audio_ops + 1 /\ UNCHANGED pending
    /\ IF SendCommandOk
         THEN LET after == clear IN
              /\ audio_commands' = Append(audio_commands, Stop)
              /\ current_generation' = after.current_generation
              /\ command_queue' = after.command_queue
              /\ samples' = after.samples
              /\ last' = after.last
              /\ panicked' = after.panicked
              /\ blank' = ~after.panicked
              /\ drawn' = IF after.samples = <<>> THEN <<>> ELSE drawn
              /\ selection' = [event |-> "none", calls |-> <<"stop", "clear">>]
         ELSE /\ panicked' = TRUE
              /\ selection' = [event |-> "none", calls |-> <<"stop">>]
              /\ UNCHANGED <<audio_commands, current_generation, command_queue,
                             samples, last, blank, drawn>>

\* the fields that a message of Task::done for the tuner leaves alone
TaskFrame ==
    UNCHANGED <<wvars, fvars, evars, vis, pitch, panicked, pending, selection,
                output_stream, audio_sender, audio_commands, events, parked, epc,
                mixer, sink, current_file_duration, current_file_path, sources,
                levels_per_channel, points, scope_buffer, spectrum, audio_ops,
                session, history, silenced, sink_pos, play_position>>

\* Visualization::update, Message::SampleSelectionChanged: hands the message on
\* to the tuner
VisualizationSampleSelectionChanged ==
    /\ ~panicked
    /\ TaskFrame
    /\ tasks # <<>>
    /\ Head(tasks) = "Visualization"
    /\ tasks' = Append(Tail(tasks), "Tuner")
    /\ UNCHANGED tuner

\* Tuner::update, Message::SampleSelectionChanged: self.processor.reset()
TunerSampleSelectionChanged ==
    /\ ~panicked
    /\ TaskFrame
    /\ tasks # <<>>
    /\ Head(tasks) = "Tuner"
    /\ tasks' = Tail(tasks)
    /\ tuner' = [tuner EXCEPT !.temporary = ResetCarry(tuner.temporary)]

SelectInit ==
    /\ tasks = <<>>
    /\ pending = 0
    /\ selection = [event |-> "start", calls |-> <<>>]

SelectNext ==
    \/ \E path \in SelectPaths : SelectFile(path)
    \/ SelectFileNone
    \/ EngineStart
    \/ EngineCommand
    \/ AudioEvent
    \/ LoaderStart
    \/ WaveformUpdate

\* the visible sound files of the model: the mono track and the stereo track
SoundFiles ==
    { [track |-> 1, file |-> 1, is_file |-> TRUE, hidden |-> FALSE, extension |-> "wav"],
      [track |-> 2, file |-> 2, is_file |-> TRUE, hidden |-> FALSE, extension |-> "flac"] }

\* SEx::update, Message::SelectFile(Some(path)) of a sound file
SelectSoundFile ==
    \E path \in SoundFiles : audio_ops < MaxSelections /\ SelectFile(path)

\* the selection of sound files, with the engine, the playback thread and the
\* messages that reach the analyzers
TrackChangeNext ==
    \/ SelectSoundFile
    \/ VisualizationSampleSelectionChanged
    \/ TunerSampleSelectionChanged
    \/ EngineStart
    \/ EngineCommand
    \/ Tap
    \/ ObserveStop
    \/ AudioEvent

----------------------------------------------------------------------------
(* Visualization's functions, called once with any channel count and block *)

\* sample values of a block, in tenths of full scale
BlockSamples == {5, 6, 7, 8}

RECURSIVE SeqsUpTo(_, _)
\* the sequences over set of length n or less
SeqsUpTo(set, n) ==
    IF n = 0 THEN {<<>>}
    ELSE LET shorter == SeqsUpTo(set, n - 1) IN
         shorter \cup {Append(q, x) : q \in {r \in shorter : Len(r) = n - 1}, x \in set}

\* the blocks given to the functions
Blocks == SeqsUpTo(BlockSamples, MaxBlock)

\* a call of Visualization::vectorscope
CallVectorscope ==
    /\ UNCHANGED not_vis
    /\ vis.op = "none"
    /\ \E channels \in 0 .. MaxChannels, block \in Blocks :
          vis' = [op |-> "vectorscope", channels |-> channels, block |-> block,
                  result |-> vectorscope(channels, block)]

\* a call of Visualization::compute_rms
CallComputeRms ==
    /\ UNCHANGED not_vis
    /\ vis.op = "none"
    /\ \E channels \in 0 .. MaxChannels, block \in Blocks :
          vis' = [op |-> "compute_rms", channels |-> channels, block |-> block,
                  result |-> compute_rms(channels, block)]

\* a message of Task::done for one analyzer
ToAnalyzer(analyzer, type, payload) ==
    [to |-> analyzer, type |-> type, payload |-> payload]

\* Visualization::update: the messages of the Task::batch it returns; ok is
\* FALSE when vectorscope or mono panics
VisualizationUpdate(message) ==
    IF message.type = "SampleRateChanged"
      THEN [ok |-> TRUE,
            batch |-> <<ToAnalyzer("Spectrum", "SampleRateChanged", message.rate),
                        ToAnalyzer("Tuner", "SampleRateChanged", message.rate)>>]
    ELSE LET rms == compute_rms(message.channels, message.samples)
             xy == vectorscope(message.channels, message.samples)
             averaged == mono(message.channels, message.samples)
         IN IF ~(xy.ok /\ averaged.ok) THEN [ok |-> FALSE, batch |-> <<>>]
            ELSE [ok |-> TRUE,
                  batch |-> <<ToAnalyzer("VuMeter", "Rms", rms),
                              ToAnalyzer("Vectorscope", "Points", xy.points),
                              ToAnalyzer("Scope", "Buffer", averaged.samples),
                              ToAnalyzer("Spectrum", "Buffer", averaged.samples),
                              ToAnalyzer("Tuner", "Buffer", averaged.samples)>>]

\* the sample rates a SampleRateChanged may carry: that of a source, and the 0
\* of Stop
Rates == {0, 60, 120}

\* a call of Visualization::update with an AudioBuffer: a block of the tap,
\* with the channel count of its source, or the empty block of Stop
CallUpdateAudioBuffer ==
    /\ UNCHANGED not_vis
    /\ vis.op = "none"
    /\ \E channels \in 0 .. MaxChannels, block \in Blocks :
          /\ channels = 0 => block = <<>>
          /\ vis' = [op |-> "AudioBuffer", channels |-> channels, block |-> block,
                  result |-> VisualizationUpdate(
                                 AudioBuffer(channels, block, 0, "tap"))]

\* a call of Visualization::update with a SampleRateChanged
CallUpdateSampleRateChanged ==
    /\ UNCHANGED not_vis
    /\ vis.op = "none"
    /\ \E rate \in Rates :
          vis' = [op |-> "SampleRateChanged", channels |-> rate, block |-> <<>>,
                  result |-> VisualizationUpdate(SampleRateChanged(rate, 0))]

\* Vec::resize(n, 0f32)
Resize(levels, n) ==
    [c \in 1 .. n |-> IF c <= Len(levels) THEN levels[c] ELSE [num |-> 0, den |-> 1]]

VuMeterLevelsNoResize(levels, rms_per_channel) ==
    [c \in DOMAIN levels |->
        IF c <= Len(rms_per_channel) THEN Level(rms_per_channel[c]) ELSE levels[c]]

\* VuMeter::update, Message::Rms, on a meter that holds levels: the resize when
\* the lengths differ, then the loop over rms zipped with the levels
VuMeterLevels(levels, rms_per_channel) ==
    LET resized == IF Len(rms_per_channel) # Len(levels)
                     THEN Resize(levels, Len(rms_per_channel)) ELSE levels
    IN [c \in DOMAIN resized |->
           IF c <= Len(rms_per_channel) THEN Level(rms_per_channel[c]) ELSE resized[c]]

\* values of compute_rms for one channel, as [sum of squares, frames]: 0/0 (not
\* a number), silence, a level in between, full scale, and a sum over no frame
\* (infinite)
RmsValues == {[sum |-> 0, frames |-> 0], [sum |-> 0, frames |-> 2],
              [sum |-> 1, frames |-> 2], [sum |-> 8, frames |-> 2],
              [sum |-> 3, frames |-> 0]}

\* the levels a meter may hold
LevelValues == {Level(rms) : rms \in RmsValues}

\* a call of VuMeter::update with Message::Rms, on a meter with any levels
CallVuMeterUpdate ==
    /\ UNCHANGED not_vis
    /\ vis.op = "none"
    /\ \E levels \in SeqsUpTo(LevelValues, MaxChannels),
          rms \in SeqsUpTo(RmsValues, MaxChannels) :
          vis' = [op |-> "VuMeter", channels |-> Len(rms), block |-> <<>>,
                  before |-> levels, rms |-> rms,
                  result |-> VuMeterLevels(levels, rms)]

\* sample values of the blocks given to the tuner: digital silence and full scale
TunerSamples == {0, 2}

\* a call of Tuner::update with Message::Buffer, on a tuner with any carry and
\* any label
CallTunerBuffer ==
    /\ UNCHANGED not_vis
    /\ vis.op = "none"
    /\ \E carry \in SeqsUpTo(TunerSamples, TunerFftSize - 1),
          display \in {"", "note"}, rate \in Rates,
          block \in SeqsUpTo(TunerSamples, MaxBlock) :
          LET before == [temporary |-> carry, sample_rate |-> rate,
                         display |-> display]
          IN vis' = [op |-> "Tuner", channels |-> 1, block |-> block,
                     before |-> before, result |-> TunerBuffer(before, block)]

VisInit == vis = [op |-> "none", channels |-> 0, block |-> <<>>, result |-> <<>>]

VisNext ==
    \/ CallVectorscope
    \/ CallComputeRms
    \/ CallUpdateAudioBuffer
    \/ CallUpdateSampleRateChanged
    \/ CallTunerBuffer
    \/ CallVuMeterUpdate

----------------------------------------------------------------------------
(* The tuner's pitch functions: frequency_to_midi and midi_to_note *)

RECURSIVE Pow2(_)
Pow2(k) == IF k = 0 THEN 1 ELSE 2 * Pow2(k - 1)

\* y * y for y in [1, 2) with 20 fraction bits, in two halves of 10 bits
Square(y) ==
    LET a == y \div 1024
        b == y % 1024
    IN a * a + ((2 * a * b) \div 1024) + ((b * b) \div 1048576)

RECURSIVE Normalise(_, _, _)
\* n / d as (n' / d') * 2^e with 1 <= n' / d' < 2
Normalise(n, d, e) ==
    IF n >= 2 * d THEN Normalise(n, 2 * d, e + 1)
    ELSE IF n < d THEN Normalise(2 * n, d, e - 1)
    ELSE [n |-> n, d |-> d, e |-> e]

RECURSIVE FractionDigits(_, _, _)
\* the first k binary digits of log2(y), y in [1, 2) with 20 fraction bits
FractionDigits(y, k, digits) ==
    IF k = 0 THEN digits
    ELSE LET squared == Square(y) IN
         IF squared >= 2 * 1048576
           THEN FractionDigits(squared \div 2, k - 1, 2 * digits + 1)
           ELSE FractionDigits(squared, k - 1, 2 * digits)

\* f32::log2 of n / d (n > 0), in units of 2^-FractionBits
Log2(n, d) ==
    LET normal == Normalise(n, d, 0)
        high == (normal.n * 16384) \div normal.d
        rest == (normal.n * 16384) % normal.d
        y == high * 64 + ((rest * 64) \div normal.d)
    IN normal.e * Pow2(FractionBits) + FractionDigits(y, FractionBits, 0)

FrequencyToMidiTruncates(fm) ==
    IF fm = 0 THEN 0
    ELSE LET value == 12 * Log2(fm, 4400) + 69 * Pow2(FractionBits) IN
         IF value < 0 THEN 0 ELSE value \div Pow2(FractionBits)

\* frequency_to_midi, of a frequency in tenths of a hertz:
\* (12.0 * (fm / 440.0).log2() + 69.0).round() as usize; the cast of a negative
\* value (and of the -inf of frequency 0) gives 0
frequency_to_midi(fm) ==
    IF fm = 0 THEN 0
    ELSE LET value == 12 * Log2(fm, 4400) + 69 * Pow2(FractionBits) IN
         IF value < 0 THEN 0
         ELSE (value + Pow2(FractionBits - 1)) \div Pow2(FractionBits)

\* const NOTES
NOTES == <<"C", "C#", "D", "D#", "E", "F", "F#", "G", "G#", "A", "A#", "B">>

MidiToNoteOffByOne(midi) == NOTES[((midi + 1) % 12) + 1]

\* midi_to_note
midi_to_note(midi) == NOTES[(midi % 12) + 1]

\* the frequencies the tuner maps, in tenths of a hertz: those of the bins it
\* keeps (MIN_FREQ to MAX_FREQ), and the 261.6 Hz of the test
Frequencies == {10 * hertz : hertz \in MIN_FREQ .. MAX_FREQ} \cup {2616}

\* a call of frequency_to_midi
CallFrequencyToMidi ==
    /\ UNCHANGED not_pitch
    /\ pitch.op = "none"
    /\ \E fm \in Frequencies :
          pitch' = [op |-> "frequency_to_midi", input |-> fm,
                    result |-> frequency_to_midi(fm)]

\* a call of midi_to_note
CallMidiToNote ==
    /\ UNCHANGED not_pitch
    /\ pitch.op = "none"
    /\ \E midi \in 0 .. MaxMidi :
          pitch' = [op |-> "midi_to_note", input |-> midi,
                    result |-> midi_to_note(midi)]

PitchInit == pitch = [op |-> "none", input |-> 0, result |-> 0]

PitchNext ==
    \/ CallFrequencyToMidi
    \/ CallMidiToNote

----------------------------------------------------------------------------
(* FileExplorerModel: the tree of the file explorer and its linear index *)

\* the directory the explorer is opened on.  A path is the sequence of its
\* components; the root's component is the whole path of the root
RootPath == <<"root">>

\* the entries of the directories, as load_directory_entries sorts them:
\* directories first, then files, each by name
Directories ==
    [path \in {<<"root">>, <<"root", "bar">>, <<"root", "foo">>,
               <<"root", "foo", "sub">>} |->
        CASE path = <<"root">> ->
                 <<[name |-> "bar", dir |-> TRUE], [name |-> "foo", dir |-> TRUE]>>
          [] path = <<"root", "bar">> -> <<[name |-> "r.wav", dir |-> FALSE]>>
          [] path = <<"root", "foo">> ->
                 <<[name |-> "sub", dir |-> TRUE], [name |-> "l.wav", dir |-> FALSE]>>
          [] path = <<"root", "foo", "sub">> -> <<[name |-> "z.wav", dir |-> FALSE]>>]

\* every path of the directory tree
AllPaths ==
    {RootPath} \cup
    UNION {{Append(path, Directories[path][i].name) : i \in DOMAIN Directories[path]} :
              path \in DOMAIN Directories}

IsPrefix(short, long) ==
    /\ Len(short) <= Len(long)
    /\ SubSeq(long, 1, Len(short)) = short

\* load_directory_entries: what read_dir finds in the directory now
load_directory_entries(path) ==
    IF path \notin fs \/ path \notin DOMAIN Directories THEN <<>>
    ELSE LET Exists(entry) == Append(path, entry.name) \in fs
         IN SelectSeq(Directories[path], Exists)

\* FileExplorerModel::root_id
root_id == 0

\* Node::status
Status(node) ==
    CASE node.kind = "Root" -> "Expanded"
      [] node.kind = "Directory" -> node.status
      [] OTHER -> "Empty"

\* Node::parent: the Weak pointer upgrades while the parent is alive, and the
\* model's `root` field keeps the root alive
Parent(m, id) ==
    IF m.nodes[id].kind = "Root" THEN None
    ELSE IF m.nodes[id].parent \in DOMAIN m.nodes \/ m.nodes[id].parent = root_id
      THEN Some(m.nodes[id].parent)
    ELSE None

RECURSIVE Visit(_, _, _)
\* the loop of update_linear_index; ok is FALSE when get_node(current).unwrap()
\* finds no node
Visit(nodes, stack, rows) ==
    IF stack = <<>> THEN [ok |-> TRUE, rows |-> rows]
    ELSE LET current == Head(stack) IN
         IF current[1] \notin DOMAIN nodes
           THEN [ok |-> FALSE, rows |-> Append(rows, current)]
         ELSE IF Status(nodes[current[1]]) = "Expanded"
           THEN Visit(nodes,
                      [i \in DOMAIN nodes[current[1]].children |->
                          <<nodes[current[1]].children[i], current[2] + 1>>]
                        \o Tail(stack),
                      Append(rows, current))
         ELSE Visit(nodes, Tail(stack), Append(rows, current))

\* FileExplorerModel::update_linear_index
update_linear_index(m) ==
    LET visit == Visit(m.nodes, <<<<root_id, 0>>>>, <<>>) IN
    [m EXCEPT !.linear_index = visit.rows, !.ok = m.ok /\ visit.ok]

\* the function nodes with the entry id |-> node added or replaced
Insert(nodes, id, node) ==
    [k \in DOMAIN nodes \cup {id} |-> IF k = id THEN node ELSE nodes[k]]

RECURSIVE add_entries(_, _, _)
\* the loop of FileExplorerModel::add: add_container and add_leaf for the
\* entries whose name the parent does not hold yet
add_entries(m, parent_id, entries) ==
    IF entries = <<>> THEN m
    ELSE LET entry == Head(entries)
             parent == m.nodes[parent_id]
             known == parent_id \in DOMAIN m.nodes /\
                      \E i \in DOMAIN parent.children :
                          m.nodes[parent.children[i]].name = entry.name
             child == [kind |-> IF entry.dir THEN "Directory" ELSE "File",
                       parent |-> parent_id, children |-> <<>>,
                       name |-> entry.name, status |-> "NotLoaded"]
         IN IF parent_id \notin DOMAIN m.nodes \/ known
              THEN add_entries(m, parent_id, Tail(entries))
            ELSE IF parent.kind = "File"
              \* Node::add_child: "Trying to add a child to a leaf"
              THEN [m EXCEPT !.ok = FALSE]
            ELSE add_entries(
                   [m EXCEPT
                      !.nodes = Insert(
                          [m.nodes EXCEPT ![parent_id].children =
                              Append(@, m.next_node_id)],
                          m.next_node_id, child),
                      !.next_node_id = @ + 1],
                   parent_id, Tail(entries))

\* FileExplorerModel::set_status; get_node(id).unwrap()
set_status(m, id, status) ==
    IF id \notin DOMAIN m.nodes THEN [m EXCEPT !.ok = FALSE]
    ELSE IF m.nodes[id].kind = "Directory"
      THEN [m EXCEPT !.nodes[id].status = status]
    ELSE m

\* FileExplorerModel::add
add(m, parent_id, entries) ==
    LET added == add_entries(m, parent_id, entries) IN
    IF added.ok THEN set_status(added, parent_id, "Expanded") ELSE added

\* FileExplorerModel::remove
remove(m, id) ==
    IF id \notin DOMAIN m.nodes THEN m
    ELSE LET parent == Parent(m, id)
             NotIt(child) == child # id
             detached ==
                 IF parent = None THEN m
                 ELSE LET p == CHOOSE k \in parent : TRUE IN
                      IF p \notin DOMAIN m.nodes THEN [m EXCEPT !.ok = FALSE]
                      ELSE [m EXCEPT !.nodes[p].children = SelectSeq(@, NotIt)]
         IN IF ~detached.ok THEN detached
            ELSE update_linear_index(
                   [detached EXCEPT
                      !.nodes = [k \in DOMAIN detached.nodes \ {id} |->
                                    detached.nodes[k]]])

RECURSIVE Lookup(_, _, _)
\* the loop of FileExplorerModel::node below the root: the first child with
\* the name of the next component
Lookup(m, id, names) ==
    IF names = <<>> THEN Some(id)
    ELSE LET children == m.nodes[id].children
             found == {i \in DOMAIN children :
                          /\ children[i] \in DOMAIN m.nodes
                          /\ m.nodes[children[i]].name = Head(names)}
         IN IF found = {} THEN None
            ELSE Lookup(m, children[CHOOSE i \in found : \A j \in found : i <= j],
                        Tail(names))

\* FileExplorerModel::node, of a path under the root
node(m, path) == Lookup(m, root_id, Tail(path))

RECURSIVE path_of(_, _)
\* FileExplorerModel::path
path_of(m, id) ==
    LET parent == Parent(m, id) IN
    IF parent = None THEN <<m.nodes[id].name>>
    ELSE Append(path_of(m, CHOOSE k \in parent : TRUE), m.nodes[id].name)

RECURSIVE Subtree(_, _)
\* a node and its descendants
Subtree(nodes, id) ==
    IF id \notin DOMAIN nodes THEN {id}
    ELSE {id} \cup UNION {Subtree(nodes, nodes[id].children[i]) :
                             i \in DOMAIN nodes[id].children}

\* the rows view() shows: every row of the linear index but the root's
Displayed(rows) ==
    LET NotRoot(row) == row[1] # root_id IN SelectSeq(rows, NotRoot)

----------------------------------------------------------------------------
(* FileExplorer::update *)

\* what a message leaves in the model, with the history of the message
Handled(op, id, m) ==
    /\ explorer' = [m EXCEPT !.ok = TRUE]
    /\ panicked' = ~m.ok
    /\ explorer_last' = [op |-> op, id |-> id,
                         before |-> explorer.linear_index,
                         subtree |-> Subtree(explorer.nodes, id)]

\* Message::RequestLoad, of the control of a row whose directory is not loaded
ExplorerRequestLoad ==
    /\ UNCHANGED not_explorer
    /\ ~panicked
    /\ \E i \in DOMAIN Displayed(explorer.linear_index) :
          LET id == Displayed(explorer.linear_index)[i][1] IN
          /\ Status(explorer.nodes[id]) = "NotLoaded"
          /\ \A task \in loading : task.id # id
          /\ loading' = loading \cup
                {[id |-> id, entries |-> load_directory_entries(path_of(explorer, id))]}
    /\ UNCHANGED <<fs, explorer, explorer_last, panicked>>

\* Message::ChildrenLoaded(parent_id, new_entries)
ExplorerChildrenLoaded ==
    /\ UNCHANGED not_explorer
    /\ ~panicked
    /\ \E task \in loading :
          /\ loading' = loading \ {task}
          /\ Handled("ChildrenLoaded", task.id,
                     LET added == add(explorer, task.id, task.entries) IN
                     IF added.ok THEN update_linear_index(added) ELSE added)
    /\ UNCHANGED fs

\* Message::Collapse, of the control of a row whose directory is expanded
ExplorerCollapse ==
    /\ UNCHANGED not_explorer
    /\ ~panicked
    /\ \E i \in DOMAIN Displayed(explorer.linear_index) :
          LET id == Displayed(explorer.linear_index)[i][1] IN
          /\ Status(explorer.nodes[id]) = "Expanded"
          /\ Handled("Collapse", id,
                     update_linear_index(set_status(explorer, id, "Collapsed")))
    /\ UNCHANGED <<fs, loading>>

\* Message::Expand, of the control of a row whose directory is collapsed
ExplorerExpand ==
    /\ UNCHANGED not_explorer
    /\ ~panicked
    /\ \E i \in DOMAIN Displayed(explorer.linear_index) :
          LET id == Displayed(explorer.linear_index)[i][1] IN
          /\ Status(explorer.nodes[id]) = "Collapsed"
          /\ Handled("Expand", id,
                     update_linear_index(set_status(explorer, id, "Expanded")))
    /\ UNCHANGED <<fs, loading>>

\* a file or directory is deleted or moved away, and the watcher's
\* Message::Removed(path) is handled
ExplorerRemoved ==
    /\ UNCHANGED not_explorer
    /\ ~panicked
    /\ \E path \in fs :
          /\ fs' = {other \in fs : ~IsPrefix(path, other)}
          /\ LET found == node(explorer, path) IN
             IF found = None
               THEN UNCHANGED <<explorer, explorer_last, panicked>>
               ELSE LET id == CHOOSE k \in found : TRUE IN
                    Handled("Removed", id, remove(explorer, id))
    /\ UNCHANGED loading

\* FileExplorer::set_root_path: FileExplorerModel::new and the load of the root
ExplorerInit ==
    /\ fs = AllPaths
    /\ explorer = [nodes |-> [k \in {root_id} |->
                                 [kind |-> "Root", parent |-> root_id,
                                  children |-> <<>>, name |-> "root",
                                  status |-> "Expanded"]],
                   linear_index |-> <<>>,
                   next_node_id |-> 1,
                   ok |-> TRUE]
    /\ loading = {[id |-> root_id, entries |-> load_directory_entries(RootPath)]}
    /\ explorer_last = [op |-> "new", id |-> root_id, before |-> <<>>, subtree |-> {}]

ExplorerNext ==
    \/ ExplorerRequestLoad
    \/ ExplorerChildrenLoaded
    \/ ExplorerCollapse
    \/ ExplorerExpand
    \/ ExplorerRemoved

----------------------------------------------------------------------------
(* Specifications: one per component, the others standing still *)

Init ==
    /\ WaveformInit /\ FftInit /\ AudioInit /\ SelectInit /\ VisInit /\ PitchInit
    /\ ExplorerInit
    /\ panicked = FALSE

\* the Waveform widget driven by show() and clear(), with its loader
WaveformSpec == Init /\ [][WaveformNext]_vars

\* the loader task is polled whenever it can make progress, and the UI keeps
\* taking the loader's messages
LoaderFairness ==
    /\ WF_vars(LoaderStart)
    /\ WF_vars(LoaderIdle)
    /\ WF_vars(ProcessCommand)
    /\ WF_vars(Decode)
    /\ WF_vars(SendChunk)
    /\ WF_vars(Flush)
    /\ WF_vars(Finish)
    /\ WF_vars(WaveformUpdate)

\* Waveform::show of a decodable file and Waveform::clear, MaxLoads times in all
ShowLoad == \E path \in {f \in Files : Decodable(f)} :
               current_generation < MaxLoads /\ Show(path)
ClearLoad == current_generation < MaxLoads /\ Clear

\* Waveform::show of a file whose length is no whole number of nanoseconds
ShowOddRate == \E path \in OddRateFiles :
                  current_generation < MaxLoads /\ Show(path)

\* the widget and its loader for such files; a chunk is never full
EstimateNext ==
    \/ ShowOddRate
    \/ ClearLoad
    \/ WaveformUpdate
    \/ LoaderStart
    \/ LoaderIdle
    \/ ProcessCommand
    \/ Decode
    \/ Flush
    \/ Finish

LiveNext ==
    \/ ShowLoad
    \/ ClearLoad
    \/ WaveformUpdate
    \/ LoaderStart
    \/ LoaderIdle
    \/ ProcessCommand
    \/ Decode
    \/ SendChunk
    \/ Flush
    \/ Finish

\* the widget and its loader for files whose duration the decoder rounds
EstimateSpec == Init /\ [][EstimateNext]_vars

\* the widget and its loader under a fair executor
WaveformLiveSpec == Init /\ [][LiveNext]_vars /\ LoaderFairness

\* the loader driven by a client's commands
LoaderSpec == Init /\ [][LoaderNext]_vars

\* an FftProcessor under any calls
FftSpec == Init /\ [][FftNext]_vars

\* the audio engine, its sample taps and the analyzers under play() and stop()
AudioSpec == Init /\ [][AudioNext]_vars

\* the functions of Visualization under any channel count and block
VisualizationSpec == Init /\ [][VisNext]_vars

\* the pitch functions of the tuner, called once with any argument
PitchSpec == Init /\ [][PitchNext]_vars

\* the application under selections of files, with the engine and the loader
\* started and their commands queued
SelectSpec == Init /\ [][SelectNext]_vars

\* the Waveform widget under show() and clear() calls that outrun the loader
SupersedeSpec == Init /\ [][SupersedeNext]_vars

\* the file explorer under loads, clicks and removals
ExplorerSpec == Init /\ [][ExplorerNext]_vars

\* the engine while a long track plays
StallSpec == Init /\ [][StallNext]_vars

\* the tap of a track of fewer than 60 samples per second
SlowSpec == Init /\ [][SlowNext]_vars

\* the tap of a stereo track whose block capacity is odd
OddSpec == Init /\ [][OddNext]_vars

\* the analyzers under changes of the selected sound file
TrackChangeSpec == Init /\ [][TrackChangeNext]_vars

----------------------------------------------------------------------------
(* Properties of the waveform loader and widget *)

RECURSIVE SumSamples(_, _, _)
\* the sum of samples from..to of file f
SumSamples(f, from, to) ==
    IF from > to THEN 0 ELSE SampleAt(f, from) + SumSamples(f, from + 1, to)

\* the per-frame channel averages of the decoded samples of file f
FrameAverages(f) ==
    [k \in 1 .. (DecodedLen(f) \div Channels(f)) |->
        SumSamples(f, (k - 1) * Channels(f) + 1, k * Channels(f)) \div Channels(f)]

RECURSIVE ConcatChunks(_)
\* the samples of the SamplesReady messages of a sequence of messages, in order
ConcatChunks(messages) ==
    IF messages = <<>> THEN <<>>
    ELSE (IF Head(messages).type = "SamplesReady" THEN Head(messages).samples ELSE <<>>)
         \o ConcatChunks(Tail(messages))

IsChunk(message) == message.type = "SamplesReady"

\* the load whose events `log` holds is a LoadFile of a decodable file
DecodableLoad == load.type = "LoadFile" /\ Decodable(load.path)

\* the loader is back in Idle after the command `load`
LoadDone == pc = "Idle" /\ load.type # "None"

\* C1: a SamplesReady handled by Waveform::update while its generation differs
\* from current_generation leaves the displayed envelope unchanged.
C1_StaleChunkLeavesEnvelope ==
    [][(/\ output # <<>>
        /\ output' = Tail(output)
        /\ Head(output).type = "SamplesReady"
        /\ Head(output).generation # current_generation)
       => samples' = samples]_vars

\* a chunk of an earlier generation was dropped while an envelope was displayed
C1_Witness ==
    /\ last = "Stale"
    /\ samples # <<>>
    /\ current_generation >= 2

\* C2: when an uncancelled load of a decodable file has finished, the chunks it
\* emitted, concatenated in emission order, are the per-frame channel averages of
\* the decoded samples.
C2_ChunksAreFrameAverages ==
    (LoadDone /\ DecodableLoad /\ ~cancelled)
        => ConcatChunks(log) = FrameAverages(load.path)

\* the long file was loaded in a full chunk and a partial one
C2_Witness ==
    /\ LoadDone /\ DecodableLoad /\ ~cancelled
    /\ Len(SelectSeq(log, IsChunk)) = 2
    /\ Len(ConcatChunks(log)) > BufferSize(SampleRateOf(load.path))

\* LoadingStarted, then only SamplesReady
StartedThenChunks(messages) ==
    /\ messages # <<>>
    /\ messages[1].type = "LoadingStarted"
    /\ \A i \in 2 .. Len(messages) : messages[i].type = "SamplesReady"

\* C3: an uncancelled load of a decodable file emits one LoadingStarted, then
\* SamplesReady messages only, then one LoadingFinished, and nothing else.
C3_StartedChunksFinished ==
    (DecodableLoad /\ ~cancelled) =>
        CASE pc = "Process" -> log = <<>>
          [] pc = "Idle" ->
                /\ Len(log) >= 2
                /\ StartedThenChunks(SubSeq(log, 1, Len(log) - 1))
                /\ log[Len(log)] = LoadingFinished
          [] OTHER -> StartedThenChunks(log)

\* a load has run from LoadingStarted over two chunks to LoadingFinished
C3_Witness ==
    /\ LoadDone /\ DecodableLoad /\ ~cancelled
    /\ Len(log) = 4

\* C4: every SamplesReady carries the generation of the LoadFile that started the
\* decode it comes from.
C4_ChunkCarriesLoadGeneration ==
    \A i \in DOMAIN log :
        log[i].type = "SamplesReady" =>
            /\ load.type = "LoadFile"
            /\ log[i].generation = load.generation

\* a chunk of a generation-1 load was emitted after a LoadFile of another
\* generation was taken and dropped by the cancellation poll
C4_Witness ==
    /\ \E i \in DOMAIN log : log[i].type = "SamplesReady" /\ log[i].generation = 1
    /\ dropped
    /\ LoadDone

\* C5: whenever the loader consumes a StopLoading, idle or in the middle of a
\* decode, the samples not yet emitted are discarded and a Clear is emitted.
C5_StopLoadingEmitsClear ==
    /\ (LoadDone /\ load.type = "StopLoading") => log = <<ClearMsg>>
    /\ cancelled => buffer = <<>>
    /\ (LoadDone /\ cancelled) => \E i \in DOMAIN log : log[i] = ClearMsg

\* C6: a LoadFile of a file that cannot be opened or decoded emits Clear, and
\* nothing else, and leaves the loader Idle.
C6_FailedLoadEmitsClear ==
    (load.type = "LoadFile" /\ ~Decodable(load.path)) =>
        \/ pc = "Process" /\ log = <<>>
        \/ pc = "Idle" /\ log = <<ClearMsg>> /\ decoder = NoDecoder

\* a file that opens but does not decode was answered by Clear
C6_Witness ==
    /\ LoadDone
    /\ load.type = "LoadFile"
    /\ Openable(load.path) /\ ~DecoderBuilds(load.path)
    /\ log = <<ClearMsg>>

----------------------------------------------------------------------------
(* Properties of the FFT processor *)

\* C7: after process() calls of cumulative input length N, the processor has
\* returned floor(N / FFT_SIZE) results, each of FFT_SIZE samples, and holds
\* N mod FFT_SIZE samples in its carry.
C7_ExactConsumption ==
    /\ fft_results = fft_fed \div FftSize
    /\ Len(temporary) = fft_fed % FftSize
    /\ \A r \in fft_result : Len(r.fft_of) = FftSize

\* C8: after reset(), process() returns none as long as fewer than FFT_SIZE
\* samples were fed since the reset.
C8_NoneAfterReset ==
    (fft_reset # None /\ fft_op = "process" /\ fft_fed < FftSize)
        => fft_result = None

\* a reset cleared a carry that was not empty, and the calls since then, one
\* sample short of a block, returned none
C8_Witness ==
    /\ \E cleared \in fft_reset : cleared > 0
    /\ fft_op = "process"
    /\ fft_fed = FftSize - 1
    /\ fft_result = None

----------------------------------------------------------------------------
(* Properties of the audio engine and the analyzers *)

\* C9: each Stop command the engine handles and each end of a playing source
\* sends exactly one empty block to the fan-out: there are as many empty blocks
\* of Stop as handled Stop commands, and as many of end-of-file as ends.
C9_OneEmptyBlockPerEnd ==
    /\ history.empty_stop = history.stops
    /\ history.empty_eof = history.eofs

\* every analyzer shows silence
Silent ==
    /\ \A c \in DOMAIN levels_per_channel : levels_per_channel[c].num = 0
    /\ points = <<>>
    /\ scope_buffer = <<>>
    /\ spectrum.display_buffer = <<>>
    /\ tuner.display = ""

\* C10: once an empty block was dispatched, every analyzer shows silence until
\* a block of a later playback session is dispatched.
C10_SilentAfterEmptyBlock == silenced # None => Silent

\* the engine takes a Play of a path that does not open or decode, with the
\* mixer set
HandlesFailedPlay ==
    /\ ~panicked /\ epc = "Loop" /\ mixer
    /\ audio_commands # <<>>
    /\ Head(audio_commands).type = "Play"
    /\ ~TrackDecodes(Head(audio_commands).path)
    /\ audio_commands' = Tail(audio_commands)

\* C11: a Play whose file does not open or decode leaves the playback state as
\* it was: the same sink, the same sources playing (none asked to stop), the
\* same current file path and duration.
C11_FailedPlayChangesNothing ==
    [][HandlesFailedPlay =>
          /\ sink' = sink
          /\ sources' = sources
          /\ current_file_path' = current_file_path
          /\ current_file_duration' = current_file_duration]_vars

\* C12: when the output device could not be opened, no play(), stop(),
\* QueryPosition or SetPosition makes the application panic.
C12_NoDeviceNoPanic == ~output_stream => ~panicked

----------------------------------------------------------------------------
(* Properties of the selection of a file *)

\* C13: a SelectFile of a supported file calls Audio::play and Waveform::show,
\* a SelectFile(None) calls Audio::stop and Waveform::clear, and an unsupported
\* selection queues the SelectFile(None) that does: never one call of a pair
\* without the other.
C13_SelectionCallsBoth ==
    /\ selection.event = "supported" => selection.calls = <<"play", "show">>
    /\ selection.event = "none" => selection.calls = <<"stop", "clear">>
    /\ selection.event = "unsupported" => (selection.calls = <<>> /\ pending > 0)

----------------------------------------------------------------------------
(* Properties of the transport *)

\* the engine takes a command of the given type
Handles(type) ==
    /\ ~panicked /\ epc = "Loop"
    /\ audio_commands # <<>>
    /\ Head(audio_commands).type = type
    /\ audio_commands' = Tail(audio_commands)

\* C14: from a handled Stop until a Play succeeds, the engine holds no current
\* file path and no duration and every source still alive was asked to stop; a
\* QueryPosition handled then sends nothing, and a SetPosition handled then
\* changes neither the sources nor the position nor the channel, and does not
\* panic.
C14_StopClearsTransport ==
    /\ [](history.halted =>
            /\ current_file_path = None
            /\ current_file_duration = None
            /\ \A src \in sources : src.stop)
    /\ [][(history.halted /\ Handles("QueryPosition")) => events' = events]_vars
    /\ [][(history.halted /\ Handles("SetPosition")) =>
            /\ UNCHANGED <<sources, sink, sink_pos, events, session>>
            /\ ~panicked']_vars

\* a file was played, a Stop was handled, and the last command the engine
\* handled since is a QueryPosition or a SetPosition
C14_Witness ==
    /\ history.halted
    /\ session > 0
    /\ history.last \in {"QueryPosition", "SetPosition"}

\* the known duration of the current file, in frames
KnownDuration == CHOOSE d \in current_file_duration : TRUE

\* the source a restart at the fraction (in halves) leaves in the current sink
Restarted(fraction) ==
    \E src \in sources' :
        /\ src \notin sources
        /\ src.sink \in sink'
        /\ src.track \in current_file_path
        /\ src.pos = ((KnownDuration * fraction) \div 2) * TrackChannels(src.track)

\* C15: a SetPosition to a fraction inside 0..1 that the engine handles after
\* the file played to its end (sink empty, path and duration current) appends
\* a fresh decode of the file positioned at fraction x duration; short of that
\* only when the file does not open again, and then nothing changes.
C15_SetPositionRestarts ==
    [][(/\ Handles("SetPosition")
        /\ Head(audio_commands).path = 1
        /\ sink # None /\ SinkEmpty /\ history.eofs > 0
        /\ current_file_path # None /\ current_file_duration # None
        /\ \A d \in current_file_duration : d > 0)
       => (/\ ~panicked'
           /\ Restarted(1) \/ sources' = sources)]_vars

\* C16: no SetPosition the engine handles makes it panic.
C16_SetPositionNeverPanics == [][Handles("SetPosition") => ~panicked']_vars

\* C17: every PlayPosition the engine emits is a quotient elapsed / duration
\* with a duration above zero, and lies in 0..1.
C17_PlayPositionInRange ==
    \A i \in DOMAIN events :
        events[i].type = "PlayPosition" =>
            /\ events[i].position.den > 0
            /\ 0 <= events[i].position.num
            /\ events[i].position.num <= events[i].position.den

----------------------------------------------------------------------------
(* Properties of Visualization's functions *)

\* the points the vectorscope is to show for a block
ExpectedPoints(channels, block) ==
    CASE channels = 1 -> [i \in DOMAIN block |-> <<block[i], block[i]>>]
      [] channels = 2 -> [i \in 1 .. (Len(block) \div 2) |->
                             <<block[2 * i - 1], block[2 * i]>>]
      [] OTHER -> <<>>

\* C18: Visualization::vectorscope returns, for every channel count and block,
\* the points (s, s) of a mono block, the points (left, right) of the
\* consecutive pairs of a stereo block, and no point otherwise.
C18_VectorscopePoints ==
    vis.op = "vectorscope" =>
        /\ vis.result.ok
        /\ vis.result.points = ExpectedPoints(vis.channels, vis.block)

\* the indices of a block that hold samples of channel c (1-based)
ChannelIndices(channels, block, c) ==
    {i \in DOMAIN block : (i - 1) % channels = c - 1}

RECURSIVE SquaresOver(_, _)
\* the sum of the squares of the samples of a block at a set of indices
SquaresOver(block, indices) ==
    IF indices = {} THEN 0
    ELSE LET i == CHOOSE j \in indices : TRUE IN
         block[i] * block[i] + SquaresOver(block, indices \ {i})

\* C19: Visualization::compute_rms returns nothing for an empty buffer or zero
\* channels, and otherwise one value per channel, whose square is the mean of
\* the squares of that channel's samples: their sum over their number.
C19_RmsPerChannel ==
    vis.op = "compute_rms" =>
        IF vis.block = <<>> \/ vis.channels = 0 THEN vis.result = <<>>
        ELSE /\ Len(vis.result) = vis.channels
             /\ \A c \in 1 .. vis.channels :
                   LET indices == ChannelIndices(vis.channels, vis.block, c) IN
                   /\ vis.result[c].frames = Cardinality(indices)
                   /\ vis.result[c].frames > 0
                   /\ vis.result[c].sum = SquaresOver(vis.block, indices)

----------------------------------------------------------------------------
(* Properties of the tuner's pitch functions *)

\* the lowest frequencies, in thousandths of a hertz, that are nearer to the
\* notes 60 .. 71 of equal temperament (A = 440 Hz) than to the note below:
\* 440 * 2^((m - 69.5) / 12)
SemitoneFloor ==
    <<254178, 269292, 285305, 302270, 320244, 339287,
      359462, 380837, 403482, 427475, 452893, 479824>>

\* the frequency fm, in tenths of a hertz, is at or above the lower edge of note m
AtOrAbove(fm, m) ==
    LET octave == (m - 60) \div 12
        edge == SemitoneFloor[((m - 60) % 12) + 1]
    IN IF octave >= 0 THEN fm * 100 >= edge * Pow2(octave)
       ELSE fm * 100 * Pow2(0 - octave) >= edge

\* the names of the twelve pitch classes
PitchClasses == <<"C", "C#", "D", "D#", "E", "F", "F#", "G", "G#", "A", "A#", "B">>

\* C20: frequency_to_midi gives the note m = round(12 log2(f / 440) + 69), the
\* one whose band of a semitone around 440 * 2^((m - 69) / 12) holds f, with
\* 440 Hz at 69 and 261.6 Hz at 60; midi_to_note gives the pitch class at
\* index m mod 12, with 69 at A, 60 and 0 at C, the same twelve notes higher.
C20_PitchMapping ==
    /\ pitch.op = "frequency_to_midi" =>
          /\ AtOrAbove(pitch.input, pitch.result)
          /\ ~AtOrAbove(pitch.input, pitch.result + 1)
          /\ pitch.input = 4400 => pitch.result = 69
          /\ pitch.input = 2616 => pitch.result = 60
    /\ pitch.op = "midi_to_note" =>
          /\ pitch.result = PitchClasses[(pitch.input % 12) + 1]
          /\ pitch.result = midi_to_note(pitch.input + 12)
          /\ pitch.input = 69 => pitch.result = "A"
          /\ pitch.input \in {0, 60} => pitch.result = "C"

\* frequency_to_midi was called with 261.6 Hz and returned 60
C20_Witness ==
    /\ pitch.op = "frequency_to_midi"
    /\ pitch.input = 2616
    /\ pitch.result = 60
    /\ midi_to_note(pitch.result) = "C"

----------------------------------------------------------------------------
(* Properties of the analyzers' carry buffers *)

\* the step is the dispatch of a message of the given type by SEx::update
Dispatches(type) ==
    /\ events # <<>>
    /\ Head(events).type = type
    /\ events' = Tail(events)

\* C21: whenever the fan-out dispatches a SampleRateChanged, Spectrum and Tuner
\* discard their FFT carry: both carries are empty after the step.
C21_RateChangeDiscardsCarry ==
    [][Dispatches("SampleRateChanged") =>
          /\ spectrum'.temporary = <<>>
          /\ tuner'.temporary = <<>>]_vars

\* the track a sample handed to the tuner comes from: the mono track is at
\* full scale, the frames of the stereo track average to half of it
TrackOfSample(x) == IF x = TrackSample(1, 1) THEN 1 ELSE 2

\* C22: when the selected file changes the tuner's carry is cleared before a
\* block of the new file is processed: whenever a block is dispatched to the
\* tuner, every SampleSelectionChanged having been delivered, the carry it is
\* appended to holds samples of that block's file only.
C22_CarryOfOneTrack ==
    [][(Dispatches("AudioBuffer") /\ Head(events).samples # <<>> /\ tasks = <<>>) =>
          \A i \in DOMAIN tuner.temporary :
              TrackChannels(TrackOfSample(tuner.temporary[i])) = Head(events).channels]_vars

----------------------------------------------------------------------------
(* Properties of the engine's loop *)

\* C23: the engine's loop never blocks on the UI: whatever the event channel
\* holds, a command that waits in the command channel can be handled, and
\* handling it leaves the loop running.
C23_EngineNeverBlocks ==
    /\ [](~panicked /\ epc = "Loop" /\ audio_commands # <<>> => ENABLED EngineCommand)
    /\ [][Handles("QueryPosition") \/ Handles("Stop") => ~panicked']_vars

----------------------------------------------------------------------------
(* Properties of the supersession of waveform loads *)

\* C24: a new load supersedes the previous one: the cancellation poll of a
\* decode never takes a LoadFile, the one decode that is active is that of the
\* LoadFile the loader took last, and every show() puts its LoadFile in the
\* command channel, where the loader takes it once it is Idle.
C24_NewLoadSupersedes ==
    /\ ~dropped
    /\ decoder # NoDecoder =>
          /\ load.type = "LoadFile"
          /\ decoder.file = load.path
          /\ decoder.generation = load.generation
    /\ last # "ShowPanic"

----------------------------------------------------------------------------
(* Properties of the file explorer *)

\* C25: a Removed(path) of a known node takes the node and its descendants out
\* of the displayed listing and leaves every other row, in the same order.
C25_RemovedDropsSubtree ==
    explorer_last.op = "Removed" =>
        /\ ~panicked
        /\ LET Stays(row) == row[1] \notin explorer_last.subtree IN
           Displayed(explorer.linear_index) =
               SelectSeq(Displayed(explorer_last.before), Stays)


\* C26: after Waveform::clear() the envelope is empty and stays empty until
\* the next show(), whichever LoadingStarted, SamplesReady, LoadingFinished and
\* Clear messages of earlier loads the widget still handles
C26_ClearedStaysEmpty == blank => samples = <<>>

\* a SamplesReady chunk of an earlier load reached the widget after clear()
C26_Witness ==
    /\ blank
    /\ last = "Stale"
    /\ samples = <<>>


\* C27: after every FftProcessor::process call, for slices of any length, the
\* carry holds fewer than FFT_SIZE samples
C27_CarryBelowFftSize == fft_op = "process" => Len(temporary) < FftSize


\* the tap of src met the end of its stream in this step
EndOfStream(src) ==
    /\ src \in sources
    /\ src.pos = TrackLen(src.track)
    /\ sources' = sources \ {src}
    /\ history'.eofs = history.eofs + 1

EmitsBlock(src) ==
    /\ src \in sources
    /\ src.pos < TrackLen(src.track)
    /\ \E after \in sources' : after.id = src.id /\ after.pos = src.pos + 1
    /\ Len(events') = Len(events) + 1

\* C29: every block the tap emits while the stream runs holds exactly
\* sample_rate * channels / 60 samples in decode order, the tap buffer is empty
\* after each emission, and its length never exceeds that capacity, for any
\* sample rate and channel count
C29_BlocksOfCapacity ==
    /\ [](\A src \in sources : Len(src.buffer) <= BufferCapacity(src.track))
    /\ [][\A src \in sources :
            EmitsBlock(src) =>
                /\ events'[Len(events')].samples =
                       [i \in 1 .. BufferCapacity(src.track) |->
                           TrackSample(src.track, src.pos + 1 - BufferCapacity(src.track) + i)]
                /\ \A after \in sources' : after.id = src.id => after.buffer = <<>>]_vars


\* C30: once a StopLoading is in the loader's queue during a decode, the
\* loader sends at most one further SamplesReady chunk of that decode before it
\* stops decoding and returns to Idle
C30_OneChunkAfterStop == \A n \in late : n <= 1

\* a chunk was sent with a StopLoading waiting in the queue, and the poll of the
\* next sample then ended the decode
C30_Witness ==
    /\ late = Some(1)
    /\ cancelled
    /\ pc = "Flush"


\* the LoadingFinished messages among those the loader sent for its command
Finishes == Cardinality({i \in DOMAIN log : log[i].type = "LoadingFinished"})

\* C31: every decode that has started emits exactly one LoadingFinished and
\* returns the loader to Idle, whether it ran to the end or was cancelled,
\* when the UI keeps taking the loader's messages
C31_DecodeFinishes ==
    /\ [](InDecode \/ pc = "Finish" => Finishes = 0)
    /\ [](pc = "Idle" /\ log # <<>> /\ Head(log).type = "LoadingStarted" => Finishes = 1)
    /\ InDecode ~> (pc = "Idle" /\ Finishes = 1)

\* a cancelled decode sent its LoadingFinished and the loader is Idle
C31_Witness ==
    /\ pc = "Idle"
    /\ cancelled
    /\ Finishes = 1
    /\ Head(log).type = "LoadingStarted"


\* the step is a Play or Stop of struct Audio, or a show() or clear() of the
\* waveform widget
SendsCommand ==
    \/ audio_ops' # audio_ops
    \/ current_generation' # current_generation
    \/ last' \in {"ShowPanic", "ClearPanic"}

\* C32: for every sequence of UI events the command queues of the audio engine
\* and of the waveform loader never reject a Play, Stop, StopLoading or
\* LoadFile: no command send of the UI panics
C32_CommandSendsAccepted == [][SendsCommand => ~panicked']_vars


\* C33: for every fill level of the engine's event channel, the try_send calls
\* of the sample tap (blocks, and the sample rate when a source is wrapped)
\* and of Stop succeed: no panic, no block dropped
C33_TapSendsAccepted ==
    [][(Tap \/ Handles("Play") \/ Handles("Stop")) => ~panicked']_vars


\* the analyzers in the order of the batch
Receivers(batch) == [i \in DOMAIN batch |-> batch[i].to]

\* C34: each AudioBuffer handled by Visualization::update produces exactly one
\* message for each of the VU meter, the vectorscope, the scope, the spectrum
\* and the tuner, the last three with the same mono downmix, and nothing else;
\* each SampleRateChanged produces one message for the spectrum and one for
\* the tuner and none for the other analyzers
C34_FanOut ==
    /\ vis.op = "AudioBuffer" =>
          /\ vis.result.ok
          /\ Receivers(vis.result.batch) =
                 <<"VuMeter", "Vectorscope", "Scope", "Spectrum", "Tuner">>
          /\ vis.result.batch[3].payload = vis.result.batch[4].payload
          /\ vis.result.batch[4].payload = vis.result.batch[5].payload
    /\ vis.op = "SampleRateChanged" =>
          /\ vis.result.ok
          /\ Receivers(vis.result.batch) = <<"Spectrum", "Tuner">>
          /\ \A i \in 1 .. 2 : vis.result.batch[i].payload = vis.channels


\* the mean of the squares of the block is below 1e-6 of full scale squared;
\* in whole sample units that is a block of zeroes
BelowFloor(block) == \A i \in DOMAIN block : block[i] = 0

\* C35: for a non-empty block whose mean power is below the floor the tuner
\* estimates nothing: the block is not appended to the carry and the label is
\* left as it was
C35_QuietBlockSkipped ==
    (vis.op = "Tuner" /\ vis.block # <<>> /\ BelowFloor(vis.block)) =>
        /\ vis.result.temporary = vis.before.temporary
        /\ vis.result.display = vis.before.display
        /\ vis.result = vis.before

\* a silent block of a length that would have completed a transform met a
\* tuner with a carry and a note on display, and left both
C35_Witness ==
    /\ vis.op = "Tuner"
    /\ vis.block # <<>> /\ BelowFloor(vis.block)
    /\ vis.before.display = "note"
    /\ vis.before.temporary # <<>>
    /\ Len(vis.before.temporary) + Len(vis.block) >= TunerFftSize
    /\ vis.result = vis.before


\* C36: after each Rms update the VU meter holds exactly one level per element
\* of the RMS vector received (more or fewer than before when the channel
\* count changed, none for an empty vector), every level is computed from the
\* new RMS value only, and every level lies in 0..1
C36_OneLevelPerChannel ==
    vis.op = "VuMeter" =>
        /\ Len(vis.result) = Len(vis.rms)
        /\ \A c \in DOMAIN vis.result :
              /\ vis.result[c] = Level(vis.rms[c])
              /\ vis.result[c].den > 0
              /\ 0 <= vis.result[c].num /\ vis.result[c].num <= vis.result[c].den
        /\ vis.result = VuMeterLevels(<<>>, vis.rms)

\* a meter of three levels at full scale received the RMS of two channels, one
\* of them silent
C36_Witness ==
    /\ vis.op = "VuMeter"
    /\ Len(vis.before) = 3 /\ Len(vis.rms) = 2
    /\ \A c \in 1 .. 3 : vis.before[c] = [num |-> 1, den |-> 1]
    /\ vis.rms[1] = [sum |-> 0, frames |-> 2]
    /\ vis.result[1] = [num |-> 0, den |-> 1]
    /\ Len(vis.result) = 2


\* C37: whenever a total sample estimate is known for the current load (the
\* last LoadingStarted carried Some(n)), the length of the displayed envelope
\* never exceeds n
C37_EnvelopeWithinEstimate == \A n \in total_samples : Len(samples) <= n


\* C38: at every moment the displayed envelope holds chunks of a single load:
\* never values brought by SamplesReady messages of two different generations
C38_EnvelopeOfOneLoad ==
    /\ Len(drawn) = Len(samples)
    /\ \A i, j \in DOMAIN drawn : drawn[i] = drawn[j]

\* the envelope holds more than a full chunk, all of it of the second load
C38_Witness ==
    /\ Len(samples) > BufferSize(1)
    /\ \A i \in DOMAIN drawn : drawn[i] = 2
    /\ current_generation = 2
    /\ last = "Appended"


\* C39: every block the sample tap hands to the fan-out holds a whole number
\* of frames: its length is a multiple of the channel count, for every sample
\* rate and channel count
C39_WholeFrames ==
    \A i \in DOMAIN events :
        (events[i].type = "AudioBuffer" /\ events[i].origin = "tap") =>
            Len(events[i].samples) % events[i].channels = 0

\* C40: a ChildrenLoaded(id, entries) result handled after node id was removed
\* (the Removed event came while the load of its directory was in flight) is
\* ignored: the model is left as it was and the handler does not panic
C40_LateChildrenIgnored ==
    [][\A task \in loading :
          (/\ task.id \notin DOMAIN explorer.nodes
           /\ loading' = loading \ {task}
           /\ explorer_last'.op = "ChildrenLoaded"
           /\ explorer_last'.id = task.id)
          => (explorer' = explorer /\ ~panicked')]_vars

====
